---- MODULE Spec2Model ----
(***************************************************************************)
(* Model of the overlay-resolving calculation engine of the inventory /    *)
(* procurement planning dashboard: the Change overlay store and its edit   *)
(* flows, the breakdown aggregator and inventory recurrence, and the       *)
(* temporal classifier.                                                    *)
(***************************************************************************)
EXTENDS Integers, Sequences, FiniteSets, TLC

VARIABLES
    changes,          \* ChangesProvider state: CellChange[] (ChangesContext.tsx:34)
    changeIdCounter,  \* module-level id counter (ChangesContext.tsx:31)
    now,              \* the millisecond clock read by `new Date()`
    touchLog,         \* history: ids of the stored changes, least recently added or updated first
    weeklyData,       \* the article's base WeeklyData[] handed to the engine
    calcCall,         \* the engine call last made: its name and arguments
    calcResult,       \* what that call returned
    procInput,        \* a ProcurementBreakdown handed to calculateProcurementPo
    procResult,       \* what calculateProcurementPo returned for it
    temporalInput,    \* arguments of getWeekTemporalState
    temporalResult,   \* what getWeekTemporalState returned for them
    rowInput,         \* the row definition of the cell whose editability is asked
    editableResult,   \* the editability decision last taken for the cell
    provider,         \* which POLinkProvider is mounted: "linkStates", "allPOs" or "none"
    linkStates,       \* per-article link states: articleId -> LinkState
    allPOs,           \* POLinkProvider state: the POs of all articles
    linkedWeeks,      \* POLinkProvider state: week -> poNummer
    currentArticleId, \* POLinkProvider state: the article in view
    linkTrace,        \* history: the link-state calls made, each with the state it found
    renderedWeeks,    \* the linkedWeeks value the callbacks of the last render closed over
    fcInput,          \* arguments of the forecast estimator functions
    fcResult          \* what the estimator function last called returned

vars == <<changes, changeIdCounter, now, touchLog, weeklyData, calcCall, calcResult,
          procInput, procResult, temporalInput, temporalResult, rowInput, editableResult,
          provider, linkStates, allPOs, linkedWeeks, currentArticleId, linkTrace,
          renderedWeeks, fcInput, fcResult>>

storeVars == <<changes, changeIdCounter, now, touchLog>>
calcVars == <<weeklyData, calcCall, calcResult>>
procVars == <<procInput, procResult>>
temporalVars == <<temporalInput, temporalResult, rowInput, editableResult>>
linkVars == <<provider, linkStates, allPOs, linkedWeeks, currentArticleId, linkTrace,
              renderedWeeks>>
forecastVars == <<fcInput, fcResult>>

\* ------------------------------------------------------------------ bounds

\* addChange is called at most MaxChanges times (caps changeIdCounter)
MaxChanges == 2
\* the clock runs from 0 to MaxTime milliseconds
MaxTime == 1
\* at most MaxLinkCalls calls are made on the PO link state
MaxLinkCalls == 3

\* ------------------------------------------------------- generic helpers

\* JavaScript's `undefined` for the optional string fields week, orderId, day
undefined == "undefined"

\* JavaScript truthiness of an optional string: undefined and "" are falsy
Truthy(s) == s # undefined /\ s # ""

Max(a, b) == IF a >= b THEN a ELSE b

RECURSIVE SelectSeqBy(_, _)
\* Array.prototype.filter with the predicate given as the set of kept elements
SelectSeqBy(s, keep) ==
    IF s = <<>> THEN <<>>
    ELSE IF Head(s) \in keep
         THEN <<Head(s)>> \o SelectSeqBy(Tail(s), keep)
         ELSE SelectSeqBy(Tail(s), keep)

SeqToSet(s) == {s[i] : i \in 1..Len(s)}

\* ----------------------------------------------------- Change overlay store

Articles == {"a1", "a2"}
Weeks == {"KW1", "KW2"}
OrderIds == {"PO1"}
Comments == {"", "note"}

\* fields matched on week (and day) by getChangeForCell
NewEditableFields ==
    {"forecastBaseline", "forecastPromoKarton", "forecastPromoDisplays", "procurementForecast"}

\* fields EditableCell.handleAccept stores under `week`
WeeklyFields == NewEditableFields \cup {"forecast", "orders"}

Days == {"mo"}

\* DailyBreakdown's dayToField
dayToField(day) ==
    CASE day = "mo" -> "procurementForecast_mo"
      [] day = "di" -> "procurementForecast_di"
      [] day = "mi" -> "procurementForecast_mi"
      [] day = "do" -> "procurementForecast_do"
      [] day = "fr" -> "procurementForecast_fr"

\* the value the base dataset holds for a cell: the originalValue prop
OriginalOf(articleId, field, weekOrOrderId, day) == 1

\* the numbers a user may type into a cell
NewValues == {1, 2}

\* the absent result of Array.prototype.find
NoChange ==
    [id |-> 0, articleId |-> undefined, field |-> undefined, week |-> undefined,
     orderId |-> undefined, day |-> undefined, originalValue |-> 0, newValue |-> 0,
     comment |-> "", timestamp |-> 0]

\* addChange's filter predicate: c is a change for the same cell as change
SameCell(c, change) ==
    /\ c.articleId = change.articleId
    /\ c.field = change.field
    /\ c.week = change.week
    /\ c.orderId = change.orderId
    /\ c.day = change.day

\* addChange's state updater: drop the change of the same cell, append the new one
addChangeTo(prev, newChange) ==
    SelectSeqBy(prev, {c \in SeqToSet(prev) : ~SameCell(c, newChange)}) \o <<newChange>>

\* removeChange's state updater
removeChangeFrom(prev, id) ==
    SelectSeqBy(prev, {c \in SeqToSet(prev) : c.id # id})

\* clearChangesForArticle's state updater
clearChangesFrom(prev, articleId) ==
    SelectSeqBy(prev, {c \in SeqToSet(prev) : c.articleId # articleId})

\* the fields of `updates` that updateChange spreads over the change
ApplyUpdates(c, updates, t) ==
    [k \in DOMAIN c |->
        IF k = "timestamp" THEN t
        ELSE IF k \in DOMAIN updates THEN updates[k] ELSE c[k]]

\* updateChange's state updater
updateChangeIn(prev, id, updates, t) ==
    [i \in 1..Len(prev) |->
        IF prev[i].id = id THEN ApplyUpdates(prev[i], updates, t) ELSE prev[i]]

\* getChangeForCell's find predicate
CellMatches(c, articleId, field, weekOrOrderId, day) ==
    IF c.articleId # articleId \/ c.field # field THEN FALSE
    ELSE IF field \in NewEditableFields
         THEN IF Truthy(day)
              THEN c.week = weekOrOrderId /\ c.day = day
              ELSE c.week = weekOrOrderId /\ ~Truthy(c.day)
    ELSE IF field = "poLink" THEN c.week = weekOrOrderId
    ELSE IF field = "forecast" \/ field = "orders" THEN c.week = weekOrOrderId
    ELSE c.orderId = weekOrOrderId

\* getChangeForCell: the first stored change the predicate accepts, or none
getChangeForCell(store, articleId, field, weekOrOrderId, day) ==
    LET hits == {i \in 1..Len(store) :
                    CellMatches(store[i], articleId, field, weekOrOrderId, day)}
    IN IF hits = {} THEN NoChange
       ELSE store[CHOOSE i \in hits : \A j \in hits : i <= j]

\* getEffectiveValue
getEffectiveValue(store, articleId, field, originalValue, weekOrOrderId, day) ==
    LET change == getChangeForCell(store, articleId, field, weekOrOrderId, day)
    IN IF change # NoChange THEN change.newValue ELSE originalValue

RECURSIVE InsertByTimestamp(_, _)
\* one step of a stable sort by descending timestamp: c goes after every
\* element whose timestamp is at least its own
InsertByTimestamp(sorted, c) ==
    IF sorted = <<>> THEN <<c>>
    ELSE IF Head(sorted).timestamp >= c.timestamp
         THEN <<Head(sorted)>> \o InsertByTimestamp(Tail(sorted), c)
         ELSE <<c>> \o sorted

RECURSIVE SortByTimestampDesc(_)
\* Array.prototype.sort((a, b) => b.timestamp - a.timestamp), which is stable
SortByTimestampDesc(s) ==
    IF s = <<>> THEN <<>>
    ELSE InsertByTimestamp(SortByTimestampDesc(SubSeq(s, 1, Len(s) - 1)), s[Len(s)])

\* getChangesForArticle
getChangesForArticle(store, articleId) ==
    SortByTimestampDesc(
        SelectSeqBy(store, {c \in SeqToSet(store) : c.articleId = articleId}))

\* ------------------------------------------------------------- edit flows

\* the props <<articleId, field, weekOrOrderId, day>> EditableCell is rendered with:
\* weekly forecast and procurement cells, day-level procurement cells, order cells
EditableCellProps ==
    (Articles \X {"forecastBaseline", "procurementForecast"} \X Weeks \X {undefined})
    \cup (Articles \X {"procurementForecast"} \X {"KW1"} \X Days)
    \cup (Articles \X {"einkauf_menge"} \X OrderIds \X {undefined})

\* the props the earlier EditableCell is rendered with by the forecast table
LegacyCellProps ==
    Articles \X {"salesForecastBaseline"} \X {"KW1"} \X {undefined}

\* the props <<articleId, week, day>> of an editable DailyBreakdown day cell
DailyBreakdownProps == Articles \X {"KW1"} \X Days

\* the history after the store became store2 and change id was added or updated
Touched(store2, id) ==
    LET ids == {c.id : c \in SeqToSet(store2)}
    IN SelectSeqBy(touchLog, ids \ {id}) \o (IF id \in ids THEN <<id>> ELSE <<>>)

\* addChange: a fresh id, the current time, and the state updater
addChange(change) ==
    /\ changeIdCounter < MaxChanges
    /\ changeIdCounter' = changeIdCounter + 1
    /\ changes' = addChangeTo(changes,
            [id |-> changeIdCounter + 1,
             articleId |-> change.articleId, field |-> change.field,
             week |-> change.week, orderId |-> change.orderId, day |-> change.day,
             originalValue |-> change.originalValue, newValue |-> change.newValue,
             comment |-> change.comment, timestamp |-> now])
    /\ touchLog' = Touched(changes', changeIdCounter + 1)

removeChange(id) ==
    /\ changes' = removeChangeFrom(changes, id)
    /\ touchLog' = Touched(changes', 0)
    /\ UNCHANGED changeIdCounter

\* EditableCell.handleAccept (components/EditableCell.tsx)
EditableCellAccept(articleId, field, weekOrOrderId, day, newValue, comment) ==
    LET originalValue == OriginalOf(articleId, field, weekOrOrderId, day)
        change == getChangeForCell(changes, articleId, field, weekOrOrderId, day)
        isWeeklyField == field \in WeeklyFields
    IN /\ IF newValue = originalValue /\ comment = ""
          THEN IF change # NoChange
               THEN removeChange(change.id)
               ELSE UNCHANGED <<changes, changeIdCounter, touchLog>>
          ELSE addChange(
                [articleId |-> articleId, field |-> field,
                 week |-> IF isWeeklyField THEN weekOrOrderId ELSE undefined,
                 orderId |-> IF ~isWeeklyField THEN weekOrOrderId ELSE undefined,
                 day |-> day, originalValue |-> originalValue,
                 newValue |-> newValue, comment |-> comment])
       /\ UNCHANGED <<now, calcVars, procVars, temporalVars, linkVars, forecastVars>>

\* EditableCell.handleReject
EditableCellReject(articleId, field, weekOrOrderId, day) ==
    LET change == getChangeForCell(changes, articleId, field, weekOrOrderId, day)
    IN /\ IF change # NoChange
          THEN removeChange(change.id)
          ELSE UNCHANGED <<changes, changeIdCounter, touchLog>>
       /\ UNCHANGED <<now, calcVars, procVars, temporalVars, linkVars, forecastVars>>

\* the earlier EditableCell.handleAccept, which has no day prop
LegacyCellAccept(articleId, field, weekOrOrderId, newValue, comment) ==
    LET originalValue == OriginalOf(articleId, field, weekOrOrderId, undefined)
        change == getChangeForCell(changes, articleId, field, weekOrOrderId, undefined)
    IN /\ IF newValue = originalValue /\ comment = ""
          THEN IF change # NoChange
               THEN removeChange(change.id)
               ELSE UNCHANGED <<changes, changeIdCounter, touchLog>>
          ELSE addChange(
                [articleId |-> articleId, field |-> field,
                 week |-> IF field \in {"salesForecastBaseline",
                                        "salesForecastPromoKartonware",
                                        "salesForecastPromoDisplays",
                                        "procurementForecast"}
                          THEN weekOrOrderId ELSE undefined,
                 orderId |-> IF field \in {"einkauf_menge", "verkauf_menge"}
                             THEN weekOrOrderId ELSE undefined,
                 day |-> undefined, originalValue |-> originalValue,
                 newValue |-> newValue, comment |-> comment])
       /\ UNCHANGED <<now, calcVars, procVars, temporalVars, linkVars, forecastVars>>

\* DailyBreakdown.handleEditAccept with editingDay = day
DailyBreakdownAccept(articleId, week, day, newValue, comment) ==
    /\ addChange(
            [articleId |-> articleId, field |-> dayToField(day),
             week |-> week, orderId |-> undefined, day |-> undefined,
             originalValue |-> OriginalOf(articleId, dayToField(day), week, undefined),
             newValue |-> newValue, comment |-> comment])
    /\ UNCHANGED <<now, calcVars, procVars, temporalVars, linkVars, forecastVars>>

\* the Partial<Omit<CellChange, 'id'>> values updateChange is called with
UpdateValues ==
    {[newValue |-> v] : v \in NewValues}
    \cup {[comment |-> c] : c \in Comments}
    \cup {[week |-> w] : w \in Weeks}

\* updateChange(id, updates)
UpdateChange(id, updates) ==
    /\ changes' = updateChangeIn(changes, id, updates, now)
    /\ touchLog' = Touched(changes', id)
    /\ UNCHANGED <<changeIdCounter, now, calcVars, procVars, temporalVars, linkVars, forecastVars>>

\* clearChangesForArticle(articleId)
ClearChangesForArticle(articleId) ==
    /\ changes' = clearChangesFrom(changes, articleId)
    /\ touchLog' = Touched(changes', 0)
    /\ UNCHANGED <<changeIdCounter, now, calcVars, procVars, temporalVars, linkVars, forecastVars>>

\* a millisecond passes
Tick ==
    /\ now < MaxTime
    /\ now' = now + 1
    /\ UNCHANGED <<changes, changeIdCounter, touchLog, calcVars, procVars, temporalVars, linkVars, forecastVars>>

\* ------------------------------------------------------ breakdown aggregator

\* a weekly dataset has at most MaxWeeks weeks
MaxWeeks == 3
\* the dataset shown next to the Change store has at most ChartWeeks weeks
ChartWeeks == 2

\* calculatePromoTotal(promo)
calculatePromoTotal(promo) == promo.kartonware + promo.displays

\* calculateSalesLatestForecast(breakdown): baseline + promo
calculateSalesLatestForecast(breakdown) ==
    breakdown.baseline + calculatePromoTotal(breakdown.promo)

RECURSIVE sumPOEntries(_)
\* sumPOEntries(entries): entries.reduce((sum, entry) => sum + entry.menge, 0)
sumPOEntries(entries) ==
    IF entries = <<>> THEN 0
    ELSE Head(entries).menge + sumPOEntries(Tail(entries))

\* the forecast wins as soon as it is positive
calculateProcurementPo_forecastFirst(breakdown) ==
    IF breakdown.forecast > 0 THEN breakdown.forecast
    ELSE sumPOEntries(breakdown.posBestellt) + sumPOEntries(breakdown.posGeliefert)

\* calculateProcurementPo(breakdown), the breakdown holding the lists of POs
calculateProcurementPo(breakdown) ==
    LET bestelltTotal == sumPOEntries(breakdown.posBestellt)
        geliefertTotal == sumPOEntries(breakdown.posGeliefert)
    IN IF bestelltTotal > 0 \/ geliefertTotal > 0
       THEN bestelltTotal + geliefertTotal
       ELSE breakdown.forecast

\* calculateProcurementPo(breakdown), the breakdown holding the two totals
calculateProcurementPo_sums(breakdown) ==
    LET hasActualPOs == breakdown.ordered > 0 \/ breakdown.delivered > 0
    IN IF hasActualPOs
       THEN breakdown.ordered + breakdown.delivered
       ELSE breakdown.forecast

\* ------------------------------------------------------ inventory recurrence

\* both demand signals are deducted
calculateLagerbestandEnde_sumOfDemands(anfang, forecast, orderImSystem, procurement) ==
    anfang - (forecast + orderImSystem) + procurement

\* the end value is floored at zero
calculateLagerbestandEnde_clamped(anfang, forecast, orderImSystem, procurement) ==
    Max(0, anfang - Max(forecast, orderImSystem) + procurement)

\* calculateLagerbestandEnde(anfang, forecast, orderImSystem, procurement)
calculateLagerbestandEnde(anfang, forecast, orderImSystem, procurement) ==
    LET salesDeduction == Max(forecast, orderImSystem)
    IN anfang - salesDeduction + procurement

\* calculateLagerbestandEnde of the module that holds recalculateInventoryChain
calculateLagerbestandEnde_sums(lagerbestandAnfang, salesLatestForecast, salesOrderImSystem, procurementPo) ==
    LET consumption == Max(salesLatestForecast, salesOrderImSystem)
    IN lagerbestandAnfang - consumption + procurementPo

\* calculateLagerbestandAnfang(previousEnde)
calculateLagerbestandAnfang(previousEnde) == previousEnde

\* the week keeps the start value it came with
recalculateWeeklyData_keepAnfang(data, previousEnde) ==
    LET slf == calculateSalesLatestForecast(data.salesForecastBreakdown)
        pp == calculateProcurementPo(data.procurementBreakdown)
    IN [data EXCEPT !.salesLatestForecast = slf,
                    !.procurementPo = pp,
                    !.lagerbestandEnde =
                        calculateLagerbestandEnde(data.lagerbestandAnfang, slf,
                                                  data.salesOrderImSystem, pp)]

\* the promo total is added to the stored forecast instead of the forecast being
\* derived anew from the breakdown
recalculateWeeklyData_accumulating(data, previousEnde) ==
    LET slf == data.salesLatestForecast + calculatePromoTotal(data.salesForecastBreakdown.promo)
        pp == calculateProcurementPo(data.procurementBreakdown)
        anfang == IF previousEnde # <<>> THEN previousEnde[1] ELSE data.lagerbestandAnfang
    IN [data EXCEPT !.salesLatestForecast = slf,
                    !.procurementPo = pp,
                    !.lagerbestandAnfang = anfang,
                    !.lagerbestandEnde =
                        calculateLagerbestandEnde(anfang, slf, data.salesOrderImSystem, pp)]

\* recalculateWeeklyData(data, previousEnde?): previousEnde is <<>> when it is
\* not given and <<n>> when it is the number n
recalculateWeeklyData(data, previousEnde) ==
    LET u1 == [data EXCEPT !.salesLatestForecast =
                    calculateSalesLatestForecast(data.salesForecastBreakdown)]
        u2 == [u1 EXCEPT !.procurementPo =
                    calculateProcurementPo(data.procurementBreakdown)]
        u3 == IF previousEnde # <<>>
              THEN [u2 EXCEPT !.lagerbestandAnfang =
                        calculateLagerbestandAnfang(previousEnde[1])]
              ELSE u2
    IN [u3 EXCEPT !.lagerbestandEnde =
            calculateLagerbestandEnde(u3.lagerbestandAnfang, u3.salesLatestForecast,
                                      u3.salesOrderImSystem, u3.procurementPo)]

RECURSIVE recalculateWeeklyDataArrayFrom(_, _)
\* the loop of recalculateWeeklyDataArray at index i (0-based) over result
recalculateWeeklyDataArrayFrom(result, i) ==
    IF i >= Len(result) THEN result
    ELSE LET previousEnde == IF i > 0 THEN <<result[i].lagerbestandEnde>> ELSE <<>>
         IN recalculateWeeklyDataArrayFrom(
                [result EXCEPT ![i + 1] = recalculateWeeklyData(result[i + 1], previousEnde)],
                i + 1)

\* every week is recomputed, whatever the start index
recalculateWeeklyDataArray_fromZero(data, startIndex) ==
    recalculateWeeklyDataArrayFrom(data, 0)

\* recalculateWeeklyDataArray(weeklyData, startIndex = 0)
recalculateWeeklyDataArray(data, startIndex) ==
    recalculateWeeklyDataArrayFrom(data, startIndex)

\* Map.get on the changes handed to recalculateInventoryChain: the map is the set
\* of its entries, the key `${week}-${field}` is the pair of its two parts, and
\* the result is <<>> for undefined and <<entry>> for an entry
ChainChangeGet(map, week, field) ==
    LET hits == {e \in map : e.week = week /\ e.field = field}
    IN IF hits = {} THEN <<>> ELSE <<CHOOSE e \in hits : TRUE>>

RECURSIVE recalculateInventoryChainFrom(_, _, _)
\* the loop of recalculateInventoryChain at index i (0-based) over result
recalculateInventoryChainFrom(result, i, map) ==
    IF i >= Len(result) THEN result
    ELSE LET week == result[i + 1]
             forecastChange == ChainChangeGet(map, week.week, "salesLatestForecast")
             procurementChange == ChainChangeGet(map, week.week, "procurementPo")
             forecast == IF forecastChange # <<>> THEN forecastChange[1].value
                         ELSE week.salesLatestForecast
             procurementPo == IF procurementChange # <<>> THEN procurementChange[1].value
                              ELSE week.procurementPo
             r1 == IF i > 0
                   THEN [week EXCEPT !.lagerbestandAnfang = result[i].lagerbestandEnde]
                   ELSE week
             lagerbestandEnde ==
                 calculateLagerbestandEnde_sums(r1.lagerbestandAnfang, forecast,
                                                week.salesOrderImSystem, procurementPo)
         IN recalculateInventoryChainFrom(
                [result EXCEPT ![i + 1] = [r1 EXCEPT !.lagerbestandEnde = lagerbestandEnde]],
                i + 1, map)

\* recalculateInventoryChain(weeklyData, startIndex, changes?)
recalculateInventoryChain(data, startIndex, map) ==
    recalculateInventoryChainFrom(data, startIndex, map)

\* ------------------------------------------------------------ chart overlay

\* InventoryChart: hasChanges
hasChanges(store, articleId) ==
    IF Truthy(articleId) THEN Len(getChangesForArticle(store, articleId)) > 0 ELSE FALSE

\* InventoryChart: one week of effectiveData
effectiveWeek(store, articleId, d) ==
    LET baseline == getEffectiveValue(store, articleId, "forecastBaseline",
                        d.salesForecastBreakdown.baseline, d.week, undefined)
        promoKarton == getEffectiveValue(store, articleId, "forecastPromoKarton",
                        d.salesForecastBreakdown.promo.kartonware, d.week, undefined)
        promoDisplays == getEffectiveValue(store, articleId, "forecastPromoDisplays",
                        d.salesForecastBreakdown.promo.displays, d.week, undefined)
        procurementForecast == getEffectiveValue(store, articleId, "procurementForecast",
                        d.procurementBreakdown.forecast, d.week, undefined)
        newForecast == baseline + promoKarton + promoDisplays
        hasActualPOs == d.procurementBreakdown.ordered > 0
                        \/ d.procurementBreakdown.delivered > 0
        newProcurement == IF hasActualPOs
                          THEN d.procurementBreakdown.ordered + d.procurementBreakdown.delivered
                          ELSE procurementForecast
    IN [d EXCEPT !.salesLatestForecast = newForecast, !.procurementPo = newProcurement]

\* InventoryChart: effectiveData
effectiveData(store, articleId, data) ==
    IF ~Truthy(articleId) THEN data
    ELSE [i \in 1..Len(data) |-> effectiveWeek(store, articleId, data[i])]

RECURSIVE recalculatedLagerbestandFrom(_, _, _)
\* the loop of recalculatedLagerbestand at index i (0-based), result so far
recalculatedLagerbestandFrom(effData, i, result) ==
    IF i >= Len(effData) THEN result
    ELSE LET data == effData[i + 1]
             prevEnde == IF i > 0 THEN result[i] ELSE data.lagerbestandAnfang
             lagerbestandEnde ==
                 calculateLagerbestandEnde_sums(
                     IF i = 0 THEN data.lagerbestandAnfang ELSE prevEnde,
                     data.salesLatestForecast, data.salesOrderImSystem, data.procurementPo)
         IN recalculatedLagerbestandFrom(effData, i + 1, Append(result, lagerbestandEnde))

\* InventoryChart: recalculatedLagerbestand, the inventory line drawn
recalculatedLagerbestand(store, articleId, data) ==
    LET effData == effectiveData(store, articleId, data)
    IN IF ~hasChanges(store, articleId)
       THEN [i \in 1..Len(effData) |-> effData[i].lagerbestandEnde]
       ELSE recalculatedLagerbestandFrom(effData, 0, <<>>)

\* ------------------------------------------------------------ engine calls

\* the call record: function name and arguments
Call(fn, startIndex, map, articleId, store) ==
    [fn |-> fn, startIndex |-> startIndex, changeMap |-> map,
     articleId |-> articleId, store |-> store]

NoCall == Call("none", 0, {}, undefined, <<>>)

\* the weeks a procurement forecast can be linked in
LinkWeeks == {"KW1", "KW2"}

\* the PO numbers link calls are made with: two POs of article a1, one of
\* article a2, and a number no PO carries
PONumbers == {"PO-A", "PO-B", "PO-C", "PO-X"}
\* the PO numbers the per-article link states are called with
StatesPONumbers == {"PO-A", "PO-B", "PO-X"}

\* a week -> poNummer Map: the function that gives undefined for weeks not in it
EmptyWeekMap == [w \in LinkWeeks |-> undefined]

\* the value of linkStates for an article that has no LinkState yet
NoLinkState == [present |-> FALSE, unlinkedPOs |-> <<>>, linkedWeeks |-> EmptyWeekMap]

\* no POLinkProvider mounted
LinkIdle ==
    /\ provider = "none"
    /\ linkStates = [a \in Articles |-> NoLinkState]
    /\ allPOs = <<>>
    /\ linkedWeeks = EmptyWeekMap
    /\ currentArticleId = undefined
    /\ linkTrace = <<>>
    /\ renderedWeeks = EmptyWeekMap

StoreInit ==
    /\ changes = <<>>
    /\ changeIdCounter = 0
    /\ now = 0
    /\ touchLog = <<>>

CalcIdle ==
    /\ weeklyData = <<>>
    /\ calcCall = NoCall
    /\ calcResult = <<>>

ProcIdle ==
    /\ procInput = [forecast |-> 0, ordered |-> 0, delivered |-> 0,
                    posBestellt |-> <<>>, posGeliefert |-> <<>>]
    /\ procResult = <<>>

TemporalIdle ==
    /\ temporalInput = [weekStr |-> <<>>, ordinal |-> 0, weekYear |-> 0,
                        currentWeek |-> 0, currentYear |-> 0]
    /\ temporalResult = "none"
    /\ rowInput = [id |-> "", editable |-> FALSE, editableInFuture |-> FALSE]
    /\ editableResult = <<>>

\* no estimator call made
ForecastIdle ==
    /\ fcInput = <<>>
    /\ fcResult = <<>>

Init == StoreInit /\ CalcIdle /\ ProcIdle /\ TemporalIdle /\ LinkIdle /\ ForecastIdle

Next ==
    \/ \E p \in EditableCellProps, v \in NewValues, c \in Comments :
            EditableCellAccept(p[1], p[2], p[3], p[4], v, c)
    \/ \E p \in EditableCellProps : EditableCellReject(p[1], p[2], p[3], p[4])
    \/ \E p \in DailyBreakdownProps, v \in NewValues, c \in Comments :
            DailyBreakdownAccept(p[1], p[2], p[3], v, c)
    \/ \E p \in LegacyCellProps, v \in NewValues, c \in Comments :
            LegacyCellAccept(p[1], p[2], p[3], v, c)
    \/ \E i \in 1..Len(changes), u \in UpdateValues : UpdateChange(changes[i].id, u)
    \/ \E a \in Articles : ClearChangesForArticle(a)
    \/ Tick

\* the Change store under every edit flow
Spec == Init /\ [][Next]_vars

\* ------------------------------------------------------------ weekly datasets

\* the labels of the weeks of a dataset, formatWeekString(1), formatWeekString(2), ...
WeekLabels == <<"KW1", "KW2", "KW3", "KW4", "KW5">>
\* the year of the weeks of a dataset
DataYear == 2026

\* a PO entry of the given quantity
POEntry(menge) == [poNummer |-> "PO", menge |-> menge]

\* a ProcurementBreakdown: the lists of ordered and delivered POs, and the same
\* POs as the two totals `ordered` and `delivered`
ProcurementBreakdownOf(forecast, posBestellt, posGeliefert) ==
    [forecast |-> forecast,
     posBestellt |-> posBestellt, posGeliefert |-> posGeliefert,
     ordered |-> sumPOEntries(posBestellt), delivered |-> sumPOEntries(posGeliefert)]

\* createSalesBreakdown(baseline, kartonware, displays)
createSalesBreakdown(baseline, kartonware, displays) ==
    [baseline |-> baseline, promo |-> [kartonware |-> kartonware, displays |-> displays]]

\* the start values a base record carries
StartValues == {400, 2000}
\* the demand of a week: forecast breakdown and orders in the system
Demands ==
    {[breakdown |-> createSalesBreakdown(1000, 0, 0), orders |-> 700],
     [breakdown |-> createSalesBreakdown(300, 100, 100), orders |-> 600]}
\* the procurement of a week
Procurements ==
    {ProcurementBreakdownOf(0, <<>>, <<>>),
     ProcurementBreakdownOf(100, <<POEntry(5)>>, <<POEntry(3)>>)}

\* generateFullWeeklyData, a week present in the base data: the totals and the
\* end value are derived from the breakdowns and the record's own start value
LoadWeek(week, lagerbestandAnfang, demand, procurementBreakdown) ==
    LET salesLatestForecast == calculateSalesLatestForecast(demand.breakdown)
        procurementPo == calculateProcurementPo(procurementBreakdown)
    IN [week |-> week, year |-> DataYear,
        lagerbestandAnfang |-> lagerbestandAnfang,
        salesLatestForecast |-> salesLatestForecast,
        salesForecastBreakdown |-> demand.breakdown,
        salesOrderImSystem |-> demand.orders,
        procurementPo |-> procurementPo,
        procurementBreakdown |-> procurementBreakdown,
        lagerbestandEnde |-> calculateLagerbestandEnde(lagerbestandAnfang,
                                salesLatestForecast, demand.orders, procurementPo)]

\* the datasets of 1..maxLen weeks whose weeks are loaded from the given choices
DatasetsOf(choices, maxLen) ==
    UNION {{[i \in 1..n |-> LoadWeek(WeekLabels[i], ch[i][1], ch[i][2], ch[i][3])]
                : ch \in [1..n -> choices]}
           : n \in 1..maxLen}

Datasets == DatasetsOf(StartValues \X Demands \X Procurements, MaxWeeks)

\* datasets whose first k weeks were recomputed before their later weeks were
\* loaded anew
PartlyRecalculated ==
    UNION {{[i \in 1..Len(d) |-> IF i <= k THEN recalculateWeeklyDataArray(d, 0)[i] ELSE d[i]]
                : k \in 2..(Len(d) - 1)}
           : d \in DatasetsOf({400} \X Demands \X Procurements, MaxWeeks)}

\* the datasets shown next to the Change store
ChartDatasets == DatasetsOf({400} \X Demands \X Procurements, ChartWeeks)

\* the changes maps handed to recalculateInventoryChain (none, or one entry)
ChainChangeMaps ==
    {{},
     {[week |-> "KW2", field |-> "salesLatestForecast", value |-> 900]},
     {[week |-> "KW1", field |-> "procurementPo", value |-> 700]}}

\* ---------------------------------------------------- engine call actions

\* a recalculation that writes its result into the array it was given
RecalculateWeeklyDataArray_inPlace(startIndex) ==
    /\ calcCall' = Call("recalculateWeeklyDataArray", startIndex, {}, undefined, <<>>)
    /\ calcResult' = recalculateWeeklyDataArray(weeklyData, startIndex)
    /\ weeklyData' = calcResult'
    /\ UNCHANGED <<storeVars, procVars, temporalVars, linkVars, forecastVars>>

\* a call of recalculateWeeklyDataArray on the dataset
RecalculateWeeklyDataArray(startIndex) ==
    /\ calcCall' = Call("recalculateWeeklyDataArray", startIndex, {}, undefined, <<>>)
    /\ calcResult' = recalculateWeeklyDataArray(weeklyData, startIndex)
    /\ UNCHANGED <<weeklyData, storeVars, procVars, temporalVars, linkVars, forecastVars>>

\* a call of recalculateInventoryChain on the dataset
RecalculateInventoryChain(startIndex, map) ==
    /\ calcCall' = Call("recalculateInventoryChain", startIndex, map, undefined, <<>>)
    /\ calcResult' = recalculateInventoryChain(weeklyData, startIndex, map)
    /\ UNCHANGED <<weeklyData, storeVars, procVars, temporalVars, linkVars, forecastVars>>

\* InventoryChart renders the dataset of the article under the current store
InventoryChartRender(articleId) ==
    /\ calcCall' = Call("InventoryChart", 0, {}, articleId, changes)
    /\ calcResult' = recalculatedLagerbestand(changes, articleId, weeklyData)
    /\ UNCHANGED <<weeklyData, storeVars, procVars, temporalVars, linkVars, forecastVars>>

CalcInit ==
    /\ weeklyData \in Datasets \cup PartlyRecalculated
    /\ calcCall = NoCall
    /\ calcResult = <<>>

NextCalc ==
    \/ \E s \in 0..(Len(weeklyData) - 1) : RecalculateWeeklyDataArray(s)
    \/ \E s \in 0..(Len(weeklyData) - 1), m \in ChainChangeMaps :
            RecalculateInventoryChain(s, m)

InitCalc == StoreInit /\ CalcInit /\ ProcIdle /\ TemporalIdle /\ LinkIdle /\ ForecastIdle

\* the recalculation functions on every dataset
SpecCalc == InitCalc /\ [][NextCalc]_vars

\* the cells edited next to the chart: a weekly forecast cell, a weekly
\* procurement cell and an order cell of article a1
ChartCellProps ==
    {<<"a1", "forecastBaseline", "KW1", undefined>>,
     <<"a1", "procurementForecast", "KW2", undefined>>,
     <<"a1", "einkauf_menge", "PO1", undefined>>}

\* an edit accepted before the engine is called
ChartCellAccept(p, newValue, comment) ==
    /\ calcCall = NoCall
    /\ EditableCellAccept(p[1], p[2], p[3], p[4], newValue, comment)

ChartInit ==
    /\ weeklyData \in ChartDatasets
    /\ calcCall = NoCall
    /\ calcResult = <<>>

NextChart ==
    \/ \E p \in ChartCellProps, v \in NewValues, c \in Comments : ChartCellAccept(p, v, c)
    \/ \E a \in Articles : InventoryChartRender(a)
    \/ RecalculateWeeklyDataArray(0)
    \/ \E m \in ChainChangeMaps : RecalculateInventoryChain(0, m)

InitChart == StoreInit /\ ChartInit /\ ProcIdle /\ TemporalIdle /\ LinkIdle /\ ForecastIdle

\* the chart and the recalculation functions next to the Change store
SpecChart == InitChart /\ [][NextChart]_vars

\* ------------------------------------------------------ procurement total

\* the breakdowns handed to calculateProcurementPo
ProcurementInputs ==
    {ProcurementBreakdownOf(f, b, g) :
        f \in {0, 50, 100},
        b \in {<<>>, <<POEntry(0)>>, <<POEntry(5)>>, <<POEntry(2), POEntry(3)>>},
        g \in {<<>>, <<POEntry(0)>>, <<POEntry(3)>>, <<POEntry(1), POEntry(2)>>}}

\* calculateProcurementPo of the module holding recalculateWeeklyDataArray
CalculateProcurementPo ==
    /\ procResult' = <<"lists", calculateProcurementPo(procInput)>>
    /\ UNCHANGED <<procInput, storeVars, calcVars, temporalVars, linkVars, forecastVars>>

\* calculateProcurementPo of the module holding recalculateInventoryChain
CalculateProcurementPoSums ==
    /\ procResult' = <<"sums", calculateProcurementPo_sums(procInput)>>
    /\ UNCHANGED <<procInput, storeVars, calcVars, temporalVars, linkVars, forecastVars>>

ProcInit ==
    /\ procInput \in ProcurementInputs
    /\ procResult = <<>>

NextProc == CalculateProcurementPo \/ CalculateProcurementPoSums

InitProc == StoreInit /\ CalcIdle /\ ProcInit /\ TemporalIdle /\ LinkIdle /\ ForecastIdle

\* calculateProcurementPo on every breakdown
SpecProc == InitProc /\ [][NextProc]_vars

\* ------------------------------------------------------ temporal classifier

\* a week label is the sequence of its characters
DigitChars == <<"0", "1", "2", "3", "4", "5", "6", "7", "8", "9">>

IsDigit(ch) == \E d \in 1..10 : DigitChars[d] = ch

DigitValue(ch) == (CHOOSE d \in 1..10 : DigitChars[d] = ch) - 1

RECURSIVE ToDigits(_)
\* the decimal digits of a non-negative integer, as template literals print it
ToDigits(n) ==
    IF n < 10 THEN <<DigitChars[n + 1]>>
    ELSE Append(ToDigits(n \div 10), DigitChars[(n % 10) + 1])

\* formatWeekString(weekNum): `KW${weekNum}`
formatWeekString(weekNum) == <<"K", "W">> \o ToDigits(weekNum)

RECURSIVE ReplaceFirstKW(_)
\* weekStr.replace('KW', ''): the first occurrence of "KW" is removed
ReplaceFirstKW(s) ==
    IF Len(s) < 2 THEN s
    ELSE IF s[1] = "K" /\ s[2] = "W" THEN SubSeq(s, 3, Len(s))
    ELSE <<s[1]>> \o ReplaceFirstKW(Tail(s))

RECURSIVE SkipWhitespace(_)
SkipWhitespace(s) ==
    IF s # <<>> /\ Head(s) = " " THEN SkipWhitespace(Tail(s)) ELSE s

RECURSIVE LeadingDigits(_, _)
\* the value of the longest prefix of digits, continuing the value acc
LeadingDigits(s, acc) ==
    IF s # <<>> /\ IsDigit(Head(s))
    THEN LeadingDigits(Tail(s), acc * 10 + DigitValue(Head(s)))
    ELSE acc

\* parseInt(s, 10): <<n>> for the number n, <<>> for NaN
parseInt(s) ==
    LET t == SkipWhitespace(s)
        negative == t # <<>> /\ Head(t) = "-"
        u == IF t # <<>> /\ Head(t) \in {"-", "+"} THEN Tail(t) ELSE t
    IN IF u = <<>> \/ ~IsDigit(Head(u)) THEN <<>>
       ELSE <<(IF negative THEN -1 ELSE 1) * LeadingDigits(u, 0)>>

\* parseWeekString(weekStr): parseInt(weekStr.replace('KW', ''), 10) || 0
parseWeekString(weekStr) ==
    LET n == parseInt(ReplaceFirstKW(weekStr))
    IN IF n = <<>> \/ n[1] = 0 THEN 0 ELSE n[1]

\* the week ordinal decides before the year does
getWeekTemporalState_weekFirst(weekStr, weekYear, currentWeek, currentYear) ==
    LET weekNum == parseWeekString(weekStr)
    IN IF weekNum < currentWeek THEN "past"
       ELSE IF weekNum > currentWeek THEN "future"
       ELSE IF weekYear < currentYear THEN "past"
       ELSE IF weekYear > currentYear THEN "future"
       ELSE "current"

\* getWeekTemporalState(weekStr, weekYear, currentWeek, currentYear)
getWeekTemporalState(weekStr, weekYear, currentWeek, currentYear) ==
    LET weekNum == parseWeekString(weekStr)
    IN IF weekYear < currentYear THEN "past"
       ELSE IF weekYear > currentYear THEN "future"
       ELSE IF weekNum < currentWeek THEN "past"
       ELSE IF weekNum > currentWeek THEN "future"
       ELSE "current"

\* the week numbers and years the classifier is called with
WeekNums == {1, 2, 10, 53}
Years == {2025, 2026, 2027}

\* the labels the classifier is called with, each with the week number it was
\* formatted from; the label without a number carries 0
TemporalLabels ==
    {[weekStr |-> formatWeekString(n), ordinal |-> n] : n \in WeekNums}
    \cup {[weekStr |-> <<"K", "W">>, ordinal |-> 0]}

\* the state itself decides for every row that has one of the two flags
isEditable_flagsAlike(rowConfig, temporalState) ==
    IF temporalState = "past" THEN FALSE
    ELSE rowConfig.editable \/ rowConfig.editableInFuture

\* isEditable(rowConfig, temporalState)
isEditable(rowConfig, temporalState) ==
    IF temporalState = "past" THEN FALSE
    ELSE IF ~rowConfig.editable /\ ~rowConfig.editableInFuture THEN FALSE
    ELSE IF rowConfig.editableInFuture /\ ~rowConfig.editable
         THEN temporalState = "future"
    ELSE rowConfig.editable

\* ForecastTable: isCellEditable(row, temporalState)
isCellEditable(row, temporalState) ==
    IF temporalState = "past" THEN FALSE
    ELSE IF row.editable THEN TRUE
    ELSE IF row.editableInFuture /\ (temporalState = "future" \/ temporalState = "current")
         THEN TRUE
    ELSE FALSE

\* a row definition: its id and its two editability flags
RowDefinition(id, editable, editableInFuture) ==
    [id |-> id, editable |-> editable, editableInFuture |-> editableInFuture]

\* rows of ROW_DEFINITIONS: a calculated row and the three rows editable in
\* future weeks
ROW_DEFINITIONS ==
    {RowDefinition("salesLatestForecast", FALSE, FALSE),
     RowDefinition("salesForecast_baseline", FALSE, TRUE),
     RowDefinition("salesForecast_promo_kartonware", FALSE, TRUE),
     RowDefinition("salesForecast_promo_displays", FALSE, TRUE)}

\* the row configurations isEditable is asked about: the rows of the table and
\* rows marked unconditionally editable
RowConfigs ==
    ROW_DEFINITIONS
    \cup {RowDefinition("editable", TRUE, FALSE), RowDefinition("editableBoth", TRUE, TRUE)}

GetWeekTemporalState ==
    /\ temporalResult' = getWeekTemporalState(temporalInput.weekStr, temporalInput.weekYear,
                                              temporalInput.currentWeek, temporalInput.currentYear)
    /\ UNCHANGED <<temporalInput, rowInput, editableResult, storeVars, calcVars, procVars, linkVars, forecastVars>>

\* isEditable asked for the row in the week's temporal state
IsEditable ==
    /\ temporalResult # "none"
    /\ editableResult' = <<"isEditable", isEditable(rowInput, temporalResult)>>
    /\ UNCHANGED <<temporalInput, temporalResult, rowInput, storeVars, calcVars, procVars, linkVars, forecastVars>>

\* the forecast table asks isCellEditable for the row in the week's temporal state
IsCellEditable ==
    /\ temporalResult # "none"
    /\ editableResult' = <<"isCellEditable", isCellEditable(rowInput, temporalResult)>>
    /\ UNCHANGED <<temporalInput, temporalResult, rowInput, storeVars, calcVars, procVars, linkVars, forecastVars>>

TemporalInit ==
    /\ temporalInput \in
          {[weekStr |-> l.weekStr, ordinal |-> l.ordinal, weekYear |-> y,
            currentWeek |-> cw, currentYear |-> cy] :
              l \in TemporalLabels, y \in Years, cw \in WeekNums, cy \in Years}
    /\ temporalResult = "none"
    /\ rowInput \in RowConfigs
    /\ editableResult = <<>>

NextTemporal == GetWeekTemporalState \/ IsEditable \/ IsCellEditable

InitTemporal == StoreInit /\ CalcIdle /\ ProcIdle /\ TemporalInit /\ LinkIdle /\ ForecastIdle

\* getWeekTemporalState on every label, year and reference week, and the
\* editability decisions taken on its result
SpecTemporal == InitTemporal /\ [][NextTemporal]_vars

\* ------------------------------------------------------------ PO link state

\* POEntry of the article data: poNummer, menge, linkedToForecast
ArticlePOEntry(poNummer, menge) ==
    [poNummer |-> poNummer, menge |-> menge, linkedToForecast |-> FALSE]

\* the articles handed to initializeFromArticle: their poLinkState and the
\* linked forecasts of their weekly data
ArticleData(articleId) ==
    IF articleId = "a1"
    THEN [id |-> "a1",
          unlinkedPOs |-> <<ArticlePOEntry("PO-A", 5000), ArticlePOEntry("PO-B", 8000)>>,
          linkedPOs |-> {},
          weeklyData |-> <<>>]
    ELSE [id |-> articleId,
          unlinkedPOs |-> <<ArticlePOEntry("PO-C", 1500)>>,
          linkedPOs |-> {[week |-> "KW2", pos |-> <<ArticlePOEntry("PO-L", 2500)>>]},
          weeklyData |-> <<[week |-> "KW2", forecastLinked |-> TRUE,
                            linkedPoNummer |-> "PO-L"]>>]

LinkState(unlinkedPOs, weekMap) ==
    [present |-> TRUE, unlinkedPOs |-> unlinkedPOs, linkedWeeks |-> weekMap]

\* initializeFromArticle: the linkedWeeks built from linkedPOs (first PO of each
\* week) and then from the linked forecasts of the weekly data
initialLinkedWeeks(article) ==
    LET fromState == [w \in LinkWeeks |->
            IF \E e \in article.linkedPOs : e.week = w /\ Len(e.pos) > 0
            THEN (CHOOSE e \in article.linkedPOs : e.week = w /\ Len(e.pos) > 0).pos[1].poNummer
            ELSE undefined]
    IN [w \in LinkWeeks |->
            IF \E i \in 1..Len(article.weeklyData) :
                    /\ article.weeklyData[i].week = w
                    /\ article.weeklyData[i].forecastLinked
                    /\ Truthy(article.weeklyData[i].linkedPoNummer)
            THEN LET last == CHOOSE i \in 1..Len(article.weeklyData) :
                        /\ article.weeklyData[i].week = w
                        /\ article.weeklyData[i].forecastLinked
                        /\ Truthy(article.weeklyData[i].linkedPoNummer)
                        /\ \A j \in (i + 1)..Len(article.weeklyData) :
                              ~(/\ article.weeklyData[j].week = w
                                /\ article.weeklyData[j].forecastLinked
                                /\ Truthy(article.weeklyData[j].linkedPoNummer))
                 IN article.weeklyData[last].linkedPoNummer
            ELSE fromState[w]]

\* initializeFromArticle(article): the setLinkStates updater
initializeFromArticle(prev, article) ==
    IF prev[article.id].present THEN prev
    ELSE [prev EXCEPT ![article.id] =
            LinkState(article.unlinkedPOs, initialLinkedWeeks(article))]

\* findIndex(po => po.poNummer === poNummer): 0-based index, -1 when not found
findIndex(entries, poNummer) ==
    IF \E i \in 1..Len(entries) : entries[i].poNummer = poNummer
    THEN (CHOOSE i \in 1..Len(entries) :
            /\ entries[i].poNummer = poNummer
            /\ \A j \in 1..(i - 1) : entries[j].poNummer # poNummer) - 1
    ELSE -1

\* splice(index, 1) on a copy of the list; index is 0-based
splice1(entries, index) ==
    SubSeq(entries, 1, index) \o SubSeq(entries, index + 2, Len(entries))

\* linkPO(articleId, week, poNummer) of the per-article link states: the
\* setLinkStates updater
linkPO_states(prev, articleId, week, poNummer) ==
    LET state == prev[articleId]
        poIndex == findIndex(state.unlinkedPOs, poNummer)
    IN IF ~state.present THEN prev
       ELSE IF poIndex = -1 THEN prev
       ELSE [prev EXCEPT ![articleId] =
                LinkState(splice1(state.unlinkedPOs, poIndex),
                          [state.linkedWeeks EXCEPT ![week] = poNummer])]

\* the PO entry is put back whatever the week is linked to
unlinkPO_states_unchecked(prev, articleId, week, poNummer) ==
    LET state == prev[articleId]
    IN [prev EXCEPT ![articleId] =
            LinkState(Append(state.unlinkedPOs,
                             [poNummer |-> poNummer, menge |-> 0, linkedToForecast |-> FALSE]),
                      [state.linkedWeeks EXCEPT ![week] = undefined])]

\* unlinkPO(articleId, week, poNummer) of the per-article link states: the
\* setLinkStates updater
unlinkPO_states(prev, articleId, week, poNummer) ==
    LET state == prev[articleId]
        poEntry == [poNummer |-> poNummer, menge |-> 0, linkedToForecast |-> FALSE]
    IN IF ~state.present THEN prev
       ELSE IF state.linkedWeeks[week] # poNummer THEN prev
       ELSE [prev EXCEPT ![articleId] =
                LinkState(Append(state.unlinkedPOs, poEntry),
                          [state.linkedWeeks EXCEPT ![week] = undefined])]

\* getUnlinkedPOs(articleId) of the per-article link states
getUnlinkedPOs(states, articleId) ==
    IF states[articleId].present THEN states[articleId].unlinkedPOs ELSE <<>>

\* isForecastLinked(articleId, week) of the per-article link states
isForecastLinked(states, articleId, week) ==
    IF states[articleId].present
    THEN states[articleId].linkedWeeks[week] # undefined
    ELSE FALSE

\* getLinkedPONummer(articleId, week) of the per-article link states
getLinkedPONummer(states, articleId, week) ==
    IF states[articleId].present THEN states[articleId].linkedWeeks[week] ELSE undefined

\* POEntry of the PO list of POLinkProvider
MockPO(poNummer, menge, artikelId) ==
    [poNummer |-> poNummer, menge |-> menge, artikelId |-> artikelId,
     status |-> "unlinked", linkedWeek |-> undefined]

\* generateAllPOs(): the POs of all articles, all unlinked, numbers distinct
generateAllPOs ==
    <<MockPO("PO-A", 2500, "a1"), MockPO("PO-B", 3000, "a1"), MockPO("PO-C", 1500, "a2")>>

\* unlinkedPOsForCurrentArticle
unlinkedPOsForCurrentArticle(pos, articleId) ==
    IF ~Truthy(articleId) THEN <<>>
    ELSE SelectSeqBy(pos, {po \in SeqToSet(pos) :
                              po.artikelId = articleId /\ po.status = "unlinked"})

\* linkPO(week, poNummer): the setLinkedWeeks updater
linkPO_weeks(prev, week, poNummer) == [prev EXCEPT ![week] = poNummer]

\* linkPO(week, poNummer): the setAllPOs updater
linkPO_pos(prev, week, poNummer) ==
    [i \in 1..Len(prev) |->
        IF prev[i].poNummer = poNummer
        THEN [prev[i] EXCEPT !.status = "linked", !.linkedWeek = week]
        ELSE prev[i]]

\* unlinkPO(week): the setLinkedWeeks updater
unlinkPO_weeks(prev, week) == [prev EXCEPT ![week] = undefined]

\* unlinkPO(week): the setAllPOs updater, run when the week had a linked PO
unlinkPO_pos(prev, poNummer) ==
    IF Truthy(poNummer)
    THEN [i \in 1..Len(prev) |->
            IF prev[i].poNummer = poNummer
            THEN [prev[i] EXCEPT !.status = "unlinked", !.linkedWeek = undefined]
            ELSE prev[i]]
    ELSE prev

\* getLinkedPO(week)
getLinkedPO(weekMap, week) == weekMap[week]

\* the link state as a call finds it
LinkSnapshot ==
    [linkStates |-> linkStates, allPOs |-> allPOs, linkedWeeks |-> linkedWeeks,
     currentArticleId |-> currentArticleId]

\* the history after a call: the calls made so far, each with the state it found
Logged(op, articleId, week, poNummer) ==
    Append(linkTrace, [op |-> op, articleId |-> articleId, week |-> week,
                       poNummer |-> poNummer, pre |-> LinkSnapshot])

\* the article page loads: initializeFromArticle(article)
InitializeFromArticle(articleId) ==
    /\ provider = "linkStates"
    /\ Len(linkTrace) < MaxLinkCalls
    /\ linkStates' = initializeFromArticle(linkStates, ArticleData(articleId))
    /\ linkTrace' = Logged("initializeFromArticle", articleId, undefined, undefined)
    /\ UNCHANGED <<renderedWeeks, provider, allPOs, linkedWeeks, currentArticleId,
                   storeVars, calcVars, procVars, temporalVars, forecastVars>>

\* linkPO(articleId, week, poNummer) on the per-article link states
LinkPOStates(articleId, week, poNummer) ==
    /\ provider = "linkStates"
    /\ Len(linkTrace) < MaxLinkCalls
    /\ linkStates' = linkPO_states(linkStates, articleId, week, poNummer)
    /\ linkTrace' = Logged("linkPO", articleId, week, poNummer)
    /\ UNCHANGED <<renderedWeeks, provider, allPOs, linkedWeeks, currentArticleId,
                   storeVars, calcVars, procVars, temporalVars, forecastVars>>

\* unlinkPO(articleId, week, poNummer) on the per-article link states
UnlinkPOStates(articleId, week, poNummer) ==
    /\ provider = "linkStates"
    /\ Len(linkTrace) < MaxLinkCalls
    /\ linkStates' = unlinkPO_states(linkStates, articleId, week, poNummer)
    /\ linkTrace' = Logged("unlinkPO", articleId, week, poNummer)
    /\ UNCHANGED <<renderedWeeks, provider, allPOs, linkedWeeks, currentArticleId,
                   storeVars, calcVars, procVars, temporalVars, forecastVars>>

\* setCurrentArticle(articleId)
SetCurrentArticle(articleId) ==
    /\ provider = "allPOs"
    /\ Len(linkTrace) < MaxLinkCalls
    /\ currentArticleId' = articleId
    /\ linkTrace' = Logged("setCurrentArticle", articleId, undefined, undefined)
    /\ UNCHANGED <<renderedWeeks, provider, linkStates, allPOs, linkedWeeks,
                   storeVars, calcVars, procVars, temporalVars, forecastVars>>

\* a linkPO that also records an activity log entry for the linked cell
LinkPO_withActivityLog(week, poNummer) ==
    /\ provider = "allPOs"
    /\ Len(linkTrace) < MaxLinkCalls
    /\ linkedWeeks' = linkPO_weeks(linkedWeeks, week, poNummer)
    /\ allPOs' = linkPO_pos(allPOs, week, poNummer)
    /\ linkTrace' = Logged("linkPO", currentArticleId, week, poNummer)
    /\ addChange([articleId |-> "a1", field |-> "procurementForecast", week |-> week,
                  orderId |-> undefined, day |-> undefined, originalValue |-> 1,
                  newValue |-> 1, comment |-> poNummer])
    /\ UNCHANGED <<renderedWeeks, provider, linkStates, currentArticleId, now,
                   calcVars, procVars, temporalVars, forecastVars>>

\* EditableCell.handleLinkPO: linkPO(week, poNummer) on the PO list
LinkPO(week, poNummer) ==
    /\ provider = "allPOs"
    /\ Len(linkTrace) < MaxLinkCalls
    /\ linkedWeeks' = linkPO_weeks(linkedWeeks, week, poNummer)
    /\ allPOs' = linkPO_pos(allPOs, week, poNummer)
    /\ linkTrace' = Logged("linkPO", currentArticleId, week, poNummer)
    /\ UNCHANGED <<renderedWeeks, provider, linkStates, currentArticleId,
                   storeVars, calcVars, procVars, temporalVars, forecastVars>>

\* EditableCell.handleUnlinkPO: unlinkPO(week) on the PO list
UnlinkPO(week) ==
    /\ provider = "allPOs"
    /\ Len(linkTrace) < MaxLinkCalls
    /\ linkedWeeks' = unlinkPO_weeks(linkedWeeks, week)
    /\ allPOs' = unlinkPO_pos(allPOs, linkedWeeks[week])
    /\ linkTrace' = Logged("unlinkPO", currentArticleId, week, undefined)
    /\ UNCHANGED <<renderedWeeks, provider, linkStates, currentArticleId,
                   storeVars, calcVars, procVars, temporalVars, forecastVars>>

\* one of the two POLinkProviders is mounted, in its initial state
LinkInit ==
    /\ provider \in {"linkStates", "allPOs"}
    /\ linkStates = [a \in Articles |-> NoLinkState]
    /\ allPOs = IF provider = "allPOs" THEN generateAllPOs ELSE <<>>
    /\ linkedWeeks = EmptyWeekMap
    /\ currentArticleId = undefined
    /\ linkTrace = <<>>
    /\ renderedWeeks = EmptyWeekMap

InitLink == StoreInit /\ CalcIdle /\ ProcIdle /\ TemporalIdle /\ LinkInit /\ ForecastIdle

NextLink ==
    \/ \E a \in Articles : InitializeFromArticle(a)
    \/ \E a \in Articles, w \in LinkWeeks, p \in StatesPONumbers : LinkPOStates(a, w, p)
    \/ \E a \in Articles, w \in LinkWeeks, p \in StatesPONumbers : UnlinkPOStates(a, w, p)
    \/ \E a \in Articles : SetCurrentArticle(a)
    \/ \E w \in LinkWeeks, p \in PONumbers : LinkPO(w, p)
    \/ \E w \in LinkWeeks : UnlinkPO(w)

\* the PO link state under every link and unlink call
SpecLink == InitLink /\ [][NextLink]_vars

\* ---------------------------------------- procurement forecast cell handlers

\* the props of the procurement forecast cells of an article's table
LinkCellProps == {"a1"} \X {"procurementForecast"} \X LinkWeeks \X {undefined}

\* the POs the link popover of a cell offers
CellPONumbers == {"PO-A", "PO-B"}

\* the Change store and the PO list provider in their initial states
InitCell ==
    /\ StoreInit /\ CalcIdle /\ ProcIdle /\ TemporalIdle /\ ForecastIdle
    /\ LinkInit
    /\ provider = "allPOs"

\* the handlers of an EditableCell: accept, reject, link a PO, unlink
NextCell ==
    \/ \E p \in LinkCellProps, v \in NewValues, c \in Comments :
            EditableCellAccept(p[1], p[2], p[3], p[4], v, c)
    \/ \E p \in LinkCellProps : EditableCellReject(p[1], p[2], p[3], p[4])
    \/ \E p \in LinkCellProps, po \in CellPONumbers : LinkPO(p[3], po)
    \/ \E p \in LinkCellProps : UnlinkPO(p[3])

SpecCell == InitCell /\ [][NextCell]_vars

\* ------------------------------------------------ adaptive forecast estimator

\* histories have at most MaxHistory weeks
MaxHistory == 9

\* an optional number: <<>> is undefined, <<v>> is the number v
NoNumber == <<>>
Some(v) == <<v>>

\* w.salesActuals ?? 0
OrZero(opt) == IF opt = NoNumber THEN 0 ELSE opt[1]

\* a number as a fraction with a positive denominator
Rat(num, den) == [num |-> num, den |-> den]

\* a / b for b # 0
Divide(a, b) == IF b > 0 THEN Rat(a, b) ELSE Rat(0 - a, 0 - b)

RatLess(a, b) == a.num * b.den < b.num * a.den
RatEq(a, b) == a.num * b.den = b.num * a.den

\* Math.max and Math.min
MathMax(a, b) == IF RatLess(a, b) THEN b ELSE a
MathMin(a, b) == IF RatLess(b, a) THEN b ELSE a

\* Math.round: the nearest integer, halves going up
MathRound(r) == (2 * r.num + r.den) \div (2 * r.den)

\* FORECAST_PARAMS (ALPHA is reserved and read nowhere)
HIST_WEEKS == 8
MIN_FACTOR == Rat(1, 2)
MAX_FACTOR == Rat(3, 2)

\* a clamp that lets every value through
clamp_open(value, min, max) == value

\* clamp(value, min, max)
clamp(value, min, max) == MathMin(max, MathMax(min, value))

\* Array.prototype.slice(start, end) for 0 <= start
slice(s, start, end) ==
    LET to == IF end > Len(s) THEN Len(s) ELSE end
    IN IF start >= to THEN <<>> ELSE SubSeq(s, start + 1, to)

RECURSIVE sumActuals(_)
\* pastWeeks.reduce((sum, w) => sum + (w.salesActuals ?? 0), 0)
sumActuals(weeks) ==
    IF weeks = <<>> THEN 0 ELSE OrZero(Head(weeks).salesActuals) + sumActuals(Tail(weeks))

RECURSIVE sumBudgets(_)
\* pastWeeks.reduce((sum, w) => sum + w.salesBudget, 0)
sumBudgets(weeks) ==
    IF weeks = <<>> THEN 0 ELSE Head(weeks).salesBudget + sumBudgets(Tail(weeks))

\* calculateRunRateFactor(weeklyData, currentWeekIndex)
calculateRunRateFactor(data, currentWeekIndex) ==
    LET pastWeeks == slice(data, Max(0, currentWeekIndex - HIST_WEEKS), currentWeekIndex)
        sumActual == sumActuals(pastWeeks)
        sumBudget == sumBudgets(pastWeeks)
    IN IF sumBudget = 0 THEN Rat(1, 1)
       ELSE clamp(Divide(sumActual, sumBudget), MIN_FACTOR, MAX_FACTOR)

\* calculateBaselineForecastSystem(salesBudget, runRateFactor)
calculateBaselineForecastSystem(salesBudget, runRateFactor) ==
    MathRound(Rat(salesBudget * runRateFactor.num, runRateFactor.den))

\* an effective baseline that takes the override only when it is truthy
getEffectiveBaseline_truthy(weekData, systemBaseline, userOverride) ==
    IF userOverride # NoNumber /\ userOverride # Some(0) THEN userOverride[1]
    ELSE systemBaseline

\* getEffectiveBaseline(weekData, systemBaseline, userOverride)
getEffectiveBaseline(weekData, systemBaseline, userOverride) ==
    IF userOverride # NoNumber THEN userOverride[1] ELSE systemBaseline

\* calculateAdaptiveForecast(weekNumber, budget, salesOrderImSystem,
\* salesActuals, manualOverride) of the calculations module
calculateAdaptiveForecast(weekNumber, budget, salesOrderImSystem, salesActuals, manualOverride) ==
    IF manualOverride # NoNumber THEN manualOverride[1]
    ELSE IF weekNumber = 1 THEN budget
    ELSE IF salesActuals # NoNumber /\ salesActuals[1] > 0
         THEN MathRound(Rat(6 * salesActuals[1] + 3 * salesOrderImSystem + budget, 10))
    ELSE IF salesOrderImSystem > 0
         THEN MathRound(Rat(7 * salesOrderImSystem + 3 * budget, 10))
    ELSE budget

\* a week of history: its actual and budgeted sales
HistoryWeek(salesActuals, salesBudget) ==
    [salesActuals |-> salesActuals, salesBudget |-> salesBudget]

\* the weeks histories are made of: no budget, no actuals, actuals on budget,
\* actuals at three times the budget
HistoryWeeks ==
    {HistoryWeek(NoNumber, 0), HistoryWeek(NoNumber, 100),
     HistoryWeek(Some(100), 100), HistoryWeek(Some(300), 100)}

\* histories of every length up to MaxHistory: `split` weeks of one kind
\* followed by weeks of another
Histories ==
    {[i \in 1..len |-> IF i <= split THEN early ELSE late] :
        len \in 0..MaxHistory, split \in 0..MaxHistory, early \in HistoryWeeks,
        late \in HistoryWeeks}

\* the arguments of one estimator call
EstimatorArgs(data, index, weekNumber, budget, orders, actuals, override) ==
    [weeklyData |-> data, currentWeekIndex |-> index, weekNumber |-> weekNumber,
     budget |-> budget, salesOrderImSystem |-> orders, salesActuals |-> actuals,
     manualOverride |-> override]

Budgets == {0, 120, 121}
Overrides == {NoNumber, Some(0), Some(77)}

\* every history at every week index with two budgets, and two histories with
\* every combination of the remaining arguments
EstimatorInputs ==
    UNION {{EstimatorArgs(h, i, 2, b, 50, NoNumber, NoNumber) :
                i \in 0..Len(h), b \in {120, 121}} : h \in Histories}
    \cup {EstimatorArgs(h, Len(h), n, b, o, a, m) :
            h \in {<<>>, <<HistoryWeek(Some(300), 100), HistoryWeek(Some(100), 100)>>},
            n \in {1, 2}, b \in Budgets, o \in {0, 50},
            a \in {NoNumber, Some(0), Some(100)}, m \in Overrides}

\* the system baseline of the week the arguments describe
SystemBaselineOf(in) ==
    calculateBaselineForecastSystem(in.budget,
        calculateRunRateFactor(in.weeklyData, in.currentWeekIndex))

CalculateRunRateFactor ==
    /\ fcResult' = <<"calculateRunRateFactor",
                     calculateRunRateFactor(fcInput.weeklyData, fcInput.currentWeekIndex)>>
    /\ UNCHANGED <<fcInput, storeVars, calcVars, procVars, temporalVars, linkVars>>

CalculateBaselineForecastSystem ==
    /\ fcResult' = <<"calculateBaselineForecastSystem", SystemBaselineOf(fcInput)>>
    /\ UNCHANGED <<fcInput, storeVars, calcVars, procVars, temporalVars, linkVars>>

GetEffectiveBaseline ==
    /\ fcResult' = <<"getEffectiveBaseline",
                     getEffectiveBaseline(fcInput, SystemBaselineOf(fcInput),
                                          fcInput.manualOverride)>>
    /\ UNCHANGED <<fcInput, storeVars, calcVars, procVars, temporalVars, linkVars>>

CalculateAdaptiveForecast ==
    /\ fcResult' = <<"calculateAdaptiveForecast",
                     calculateAdaptiveForecast(fcInput.weekNumber, fcInput.budget,
                        fcInput.salesOrderImSystem, fcInput.salesActuals,
                        fcInput.manualOverride)>>
    /\ UNCHANGED <<fcInput, storeVars, calcVars, procVars, temporalVars, linkVars>>

ForecastInit ==
    /\ fcInput \in EstimatorInputs
    /\ fcResult = <<>>

InitForecast == StoreInit /\ CalcIdle /\ ProcIdle /\ TemporalIdle /\ LinkIdle /\ ForecastInit

NextForecast ==
    \/ CalculateRunRateFactor
    \/ CalculateBaselineForecastSystem
    \/ GetEffectiveBaseline
    \/ CalculateAdaptiveForecast

\* the estimator functions on every input
SpecForecast == InitForecast /\ [][NextForecast]_vars

\* ------------------------------------------------------ projection window

\* the weeks generated per year (getWeeksInYear, 52 or 53 in the code)
WeeksPerYear == 2
\* the columns that fit the scroll container: Math.ceil(availableWidth / COLUMN_WIDTH)
VisibleColumns == 1

\* generateFullWeeklyData(baseData, startYear, numYears = 2, ...): startYear is CURRENT_YEAR
DataYears == <<DataYear, DataYear + 1>>

RECURSIVE generateFullWeeklyDataFrom(_, _, _, _, _)
\* the loops of generateFullWeeklyData at week n (0-based, counted over the
\* years): each week starts from the end of the week before it
generateFullWeeklyDataFrom(result, n, previousEnde, demand, procurementBreakdown) ==
    IF n >= Len(DataYears) * WeeksPerYear THEN result
    ELSE LET year == DataYears[(n \div WeeksPerYear) + 1]
             weekStr == WeekLabels[(n % WeeksPerYear) + 1]
             weekData == [LoadWeek(weekStr, previousEnde, demand, procurementBreakdown)
                            EXCEPT !.year = year]
         IN generateFullWeeklyDataFrom(Append(result, weekData), n + 1,
                weekData.lagerbestandEnde, demand, procurementBreakdown)

\* generateFullWeeklyData for an article whose weeks share demand and procurement
generateFullWeeklyData(initialLagerbestand, demand, procurementBreakdown) ==
    generateFullWeeklyDataFrom(<<>>, 0, initialLagerbestand, demand, procurementBreakdown)

\* the two-year sequences of the articles
FullDatasets ==
    {generateFullWeeklyData(2000, d, p) : d \in Demands, p \in Procurements}

\* LagerbestandProjection: visibleWeeklyData for a scroll position at week `start`
visibleWeeklyData(data, start) ==
    LET endIndex == IF start + VisibleColumns + 1 < Len(data)
                    THEN start + VisibleColumns + 1 ELSE Len(data)
    IN slice(data, Max(0, start), endIndex)

\* the cells edited in the table under the chart
ProjectionCellProps ==
    {<<"a1", "forecastBaseline", "KW1", undefined>>,
     <<"a1", "procurementForecast", "KW2", undefined>>}

\* an edit accepted before the chart is drawn
ProjectionCellAccept(p, newValue, comment) ==
    /\ calcCall = NoCall
    /\ EditableCellAccept(p[1], p[2], p[3], p[4], newValue, comment)

\* the article page initializes the link state of its article
ProjectionInitializeFromArticle(articleId) ==
    /\ calcCall = NoCall
    /\ InitializeFromArticle(articleId)

\* a PO is linked in the table before the chart is drawn
ProjectionLinkPO(articleId, week, poNummer) ==
    /\ calcCall = NoCall
    /\ LinkPOStates(articleId, week, poNummer)

\* LagerbestandProjection renders InventoryChart on the visible weeks
LagerbestandProjectionRender(articleId, start) ==
    /\ calcCall' = Call("LagerbestandProjection", start, {}, articleId, changes)
    /\ calcResult' = recalculatedLagerbestand(changes, articleId,
                                              visibleWeeklyData(weeklyData, start))
    /\ UNCHANGED <<weeklyData, storeVars, procVars, temporalVars, linkVars, forecastVars>>

ProjectionInit ==
    /\ weeklyData \in FullDatasets
    /\ calcCall = NoCall
    /\ calcResult = <<>>

InitProjection ==
    /\ StoreInit /\ ProjectionInit /\ ProcIdle /\ TemporalIdle /\ ForecastIdle
    /\ LinkInit
    /\ provider = "linkStates"

NextProjection ==
    \/ \E p \in ProjectionCellProps, v \in NewValues, c \in Comments :
            ProjectionCellAccept(p, v, c)
    \/ ProjectionInitializeFromArticle("a1")
    \/ \E w \in LinkWeeks, po \in {"PO-A", "PO-B"} : ProjectionLinkPO("a1", w, po)
    \/ \E s \in 0..(Len(weeklyData) - 1) : LagerbestandProjectionRender("a1", s)

\* the projection of an article's two-year sequence under edits and links
SpecProjection == InitProjection /\ [][NextProjection]_vars

\* --------------------------------------------- link callbacks and renders

\* POLinkProvider renders: the callbacks made by useCallback with the
\* dependency linkedWeeks close over the current map
Render ==
    /\ provider = "allPOs"
    /\ Len(linkTrace) < MaxLinkCalls
    /\ renderedWeeks' = linkedWeeks
    /\ linkTrace' = Logged("render", currentArticleId, undefined, undefined)
    /\ UNCHANGED <<provider, linkStates, allPOs, linkedWeeks, currentArticleId,
                   storeVars, calcVars, procVars, temporalVars, forecastVars>>

\* unlinkPO(week) of the last render: poNummer is read from the map the
\* callback closed over, the two updaters run on the latest state
UnlinkPOCallback(week) ==
    /\ provider = "allPOs"
    /\ Len(linkTrace) < MaxLinkCalls
    /\ linkedWeeks' = unlinkPO_weeks(linkedWeeks, week)
    /\ allPOs' = unlinkPO_pos(allPOs, getLinkedPO(renderedWeeks, week))
    /\ linkTrace' = Logged("unlinkPO", currentArticleId, week, undefined)
    /\ UNCHANGED <<renderedWeeks, provider, linkStates, currentArticleId,
                   storeVars, calcVars, procVars, temporalVars, forecastVars>>

\* getLinkedPO(week) of the last render; the value returned is logged
GetLinkedPOCallback(week) ==
    /\ provider = "allPOs"
    /\ Len(linkTrace) < MaxLinkCalls
    /\ linkTrace' = Logged("getLinkedPO", currentArticleId, week,
                           getLinkedPO(renderedWeeks, week))
    /\ UNCHANGED <<renderedWeeks, provider, linkStates, allPOs, linkedWeeks, currentArticleId,
                   storeVars, calcVars, procVars, temporalVars, forecastVars>>

InitCallbacks ==
    /\ StoreInit /\ CalcIdle /\ ProcIdle /\ TemporalIdle /\ ForecastIdle
    /\ LinkInit
    /\ provider = "allPOs"

NextCallbacks ==
    \/ \E w \in LinkWeeks, p \in PONumbers : LinkPO(w, p)
    \/ \E w \in LinkWeeks : UnlinkPOCallback(w)
    \/ \E w \in LinkWeeks : GetLinkedPOCallback(w)
    \/ Render

\* the callbacks of POLinkProvider called in any order, with and without a
\* render between two calls
SpecCallbacks == InitCallbacks /\ [][NextCallbacks]_vars

\* ---------------------------------------------------------------- claims

\* the week or order id a stored change is keyed on
KeyOf(c) == IF c.week # undefined THEN c.week ELSE c.orderId

\* every cell <<articleId, field, weekOrOrderId, day>> an edit flow addresses
AllCells ==
    EditableCellProps \cup LegacyCellProps
    \cup {<<p[1], dayToField(p[3]), p[2], undefined>> : p \in DailyBreakdownProps}

\* positions of the stored changes recorded for cell p
ChangesOfCell(store, p) ==
    {i \in 1..Len(store) :
        /\ store[i].articleId = p[1]
        /\ store[i].field = p[2]
        /\ KeyOf(store[i]) = p[3]
        /\ store[i].day = p[4]}

\* the position, among idx, of the change added last (ids grow with every add)
LatestAdded(store, idx) == CHOOSE i \in idx : \A j \in idx : store[j].id <= store[i].id

\* C5: overlay precedence. For every cell and every original value passed,
\* getEffectiveValue is the newValue of the change added last for the cell when
\* one is stored, and the original value when none is (so also right after
\* its removal).
C5_OverlayPrecedence ==
    \A p \in AllCells, orig \in 0..2 :
        LET idx == ChangesOfCell(changes, p)
            eff == getEffectiveValue(changes, p[1], p[2], orig, p[3], p[4])
        IN IF idx = {} THEN eff = orig
           ELSE eff = changes[LatestAdded(changes, idx)].newValue

\* C6: single change per key. No two stored changes share the tuple
\* (articleId, field, week-or-orderId, day).
C6_SingleChangePerKey ==
    \A i, j \in 1..Len(changes) :
        i # j => ~(/\ changes[i].articleId = changes[j].articleId
                   /\ changes[i].field = changes[j].field
                   /\ KeyOf(changes[i]) = KeyOf(changes[j])
                   /\ changes[i].day = changes[j].day)

\* C7: add/lookup round trip. Whenever an edit-accept flow stores a Change (a
\* step that draws a new id), getChangeForCell with that change's articleId,
\* field, week-or-orderId and day returns exactly that Change.
C7_AddLookupRoundTrip ==
    [][changeIdCounter' = changeIdCounter + 1 =>
          LET c == changes'[Len(changes')]
          IN getChangeForCell(changes', c.articleId, c.field, KeyOf(c), c.day) = c]_vars

\* the stored changes of an article, the one added or updated last first
MostRecentFirst(articleId) ==
    LET mine == {c \in SeqToSet(changes) : c.articleId = articleId}
        ids == SelectSeqBy(touchLog, {c.id : c \in mine})
    IN [i \in 1..Len(ids) |->
            CHOOSE c \in mine : c.id = ids[Len(ids) + 1 - i]]

\* C8: getChangesForArticle returns exactly the stored changes of the article,
\* a change added or updated later never after one added or updated earlier.
C8_MostRecentFirst ==
    \A a \in Articles : getChangesForArticle(changes, a) = MostRecentFirst(a)

\* C9: change lifecycle. The store never holds a Change whose newValue equals
\* its originalValue and whose comment is empty.
C9_NoRedundantChange ==
    \A i \in 1..Len(changes) :
        ~(changes[i].newValue = changes[i].originalValue /\ changes[i].comment = "")

\* the forecast and the procurement value recalculateInventoryChain uses for a
\* week under the changes map of the call
ChainForecast(w, map) ==
    IF \E e \in map : e.week = w.week /\ e.field = "salesLatestForecast"
    THEN (CHOOSE e \in map : e.week = w.week /\ e.field = "salesLatestForecast").value
    ELSE w.salesLatestForecast

ChainProcurement(w, map) ==
    IF \E e \in map : e.week = w.week /\ e.field = "procurementPo"
    THEN (CHOOSE e \in map : e.week = w.week /\ e.field = "procurementPo").value
    ELSE w.procurementPo

\* forecastTotal and procurementTotal of a week record, from its breakdowns
ForecastTotalOf(w) ==
    w.salesForecastBreakdown.baseline + w.salesForecastBreakdown.promo.kartonware
        + w.salesForecastBreakdown.promo.displays

ProcurementTotalOf(w) ==
    LET actual == w.procurementBreakdown.ordered + w.procurementBreakdown.delivered
    IN IF actual > 0 THEN actual ELSE w.procurementBreakdown.forecast

\* the larger of two demand signals
LargerOf(a, b) == IF a > b THEN a ELSE b

RECURSIVE UnclampedEnd(_, _, _, _)
\* the end value of week i (1-based) of the recurrence that starts at start and
\* in each week deducts consumption[i] and adds procurement[i], never clamped;
\* week 0 stands for the start
UnclampedEnd(start, consumption, procurement, i) ==
    IF i = 0 THEN start
    ELSE UnclampedEnd(start, consumption, procurement, i - 1)
            - consumption[i] + procurement[i]

\* C1: in the sequence returned by a full recomputation (recalculateWeeklyDataArray
\* or recalculateInventoryChain with startIndex 0), every week after the first
\* starts with the end value of the week before it, whatever start values the
\* input records carried.
C1_ChainInvariant ==
    (calcCall.fn \in {"recalculateWeeklyDataArray", "recalculateInventoryChain"}
     /\ calcCall.startIndex = 0)
    => \A i \in 2..Len(calcResult) :
            calcResult[i].lagerbestandAnfang = calcResult[i - 1].lagerbestandEnde

\* a full recomputation of three weeks has replaced a start value of the input
\* that did not continue the week before it
C1_Witness ==
    /\ calcCall.fn = "recalculateWeeklyDataArray"
    /\ calcCall.startIndex = 0
    /\ Len(calcResult) = 3
    /\ \E i \in 2..3 :
        /\ weeklyData[i].lagerbestandAnfang # weeklyData[i - 1].lagerbestandEnde
        /\ calcResult[i].lagerbestandAnfang # weeklyData[i].lagerbestandAnfang

\* C2: every week of a recomputed sequence ends at its start value minus the
\* larger of forecast total and orders in the system (never their sum) plus the
\* procurement total; start 2000, forecast 1000, orders 700, procurement 0 ends
\* at 1000.
C2_EndFormula ==
    /\ calcCall.fn = "recalculateWeeklyDataArray"
        => \A i \in 1..Len(calcResult) :
            LET w == calcResult[i]
            IN w.lagerbestandEnde =
                w.lagerbestandAnfang - LargerOf(ForecastTotalOf(w), w.salesOrderImSystem)
                    + ProcurementTotalOf(w)
    /\ calcCall.fn = "recalculateInventoryChain"
        => \A i \in (calcCall.startIndex + 1)..Len(calcResult) :
            LET w == calcResult[i]
            IN w.lagerbestandEnde =
                w.lagerbestandAnfang
                    - LargerOf(ChainForecast(w, calcCall.changeMap), w.salesOrderImSystem)
                    + ChainProcurement(w, calcCall.changeMap)
    /\ \A i \in 1..Len(calcResult) :
            (/\ calcCall.fn \in {"recalculateWeeklyDataArray", "recalculateInventoryChain"}
             /\ calcCall.changeMap = {}
             /\ i > calcCall.startIndex
             /\ calcResult[i].lagerbestandAnfang = 2000
             /\ calcResult[i].salesLatestForecast = 1000
             /\ calcResult[i].salesOrderImSystem = 700
             /\ calcResult[i].procurementPo = 0)
            => calcResult[i].lagerbestandEnde = 1000

\* the example week was recomputed, and the week after it starts at 1000
C2_Witness ==
    /\ calcCall.fn = "recalculateWeeklyDataArray"
    /\ calcCall.startIndex = 0
    /\ Len(calcResult) >= 2
    /\ calcResult[1].lagerbestandAnfang = 2000
    /\ ForecastTotalOf(calcResult[1]) = 1000
    /\ calcResult[1].salesOrderImSystem = 700
    /\ ProcurementTotalOf(calcResult[1]) = 0
    /\ calcResult[1].lagerbestandEnde = 1000
    /\ calcResult[2].lagerbestandAnfang = 1000

\* the consumption and procurement of each week of a full recomputation, as
\* the call at hand takes them
ConsumptionOfCall ==
    [i \in 1..Len(weeklyData) |->
        LET w == weeklyData[i]
            e == effectiveWeek(calcCall.store, calcCall.articleId, w)
        IN CASE calcCall.fn = "recalculateWeeklyDataArray" ->
                    LargerOf(ForecastTotalOf(w), w.salesOrderImSystem)
             [] calcCall.fn = "recalculateInventoryChain" ->
                    LargerOf(ChainForecast(w, calcCall.changeMap), w.salesOrderImSystem)
             [] OTHER -> LargerOf(e.salesLatestForecast, w.salesOrderImSystem)]

ProcurementOfCall ==
    [i \in 1..Len(weeklyData) |->
        LET w == weeklyData[i]
            e == effectiveWeek(calcCall.store, calcCall.articleId, w)
        IN CASE calcCall.fn = "recalculateWeeklyDataArray" -> ProcurementTotalOf(w)
             [] calcCall.fn = "recalculateInventoryChain" ->
                    ChainProcurement(w, calcCall.changeMap)
             [] OTHER -> e.procurementPo]

\* C3: negative inventory is never clamped: when the recomputed end value of a
\* week is negative, exactly that value is the week's end and the next week's
\* start, in the recalculation functions and in the chart's recomputation over
\* the overlay-adjusted data; start 400, consumption 600, procurement 0 ends at
\* -200 and the next week starts at -200.
C3_NegativeUnclamped ==
    \A i \in 1..Len(calcResult) :
        LET end == UnclampedEnd(weeklyData[1].lagerbestandAnfang,
                                ConsumptionOfCall, ProcurementOfCall, i)
        IN end < 0 =>
            /\ (calcCall.fn \in {"recalculateWeeklyDataArray", "recalculateInventoryChain"}
                /\ calcCall.startIndex = 0)
                => /\ calcResult[i].lagerbestandEnde = end
                   /\ i < Len(calcResult) => calcResult[i + 1].lagerbestandAnfang = end
            /\ (calcCall.fn = "InventoryChart"
                /\ hasChanges(calcCall.store, calcCall.articleId))
                => /\ calcResult[i] = end
                   /\ i < Len(calcResult) =>
                        calcResult[i + 1] =
                            end - ConsumptionOfCall[i + 1] + ProcurementOfCall[i + 1]

\* the chart recomputed the line under a change of the forecast: the first week
\* starts at 400 and ends at -200, and a second week continues from there
C3_Witness ==
    /\ calcCall.fn = "InventoryChart"
    /\ hasChanges(calcCall.store, calcCall.articleId)
    /\ \E j \in 1..Len(calcCall.store) : calcCall.store[j].field = "forecastBaseline"
    /\ Len(calcResult) = 2
    /\ weeklyData[1].lagerbestandAnfang = 400
    /\ ConsumptionOfCall[1] = 600
    /\ ProcurementOfCall[1] = 0
    /\ calcResult[1] = -200
    /\ calcResult[2] = -200 - ConsumptionOfCall[2] + ProcurementOfCall[2]

\* C4: the procurement total is ordered + delivered whenever that sum is greater
\* than 0, whatever the forecast is, and the forecast otherwise; ordered 5,
\* delivered 3, forecast 100 gives 8; nothing ordered or delivered and forecast
\* 50 gives 50; all zero gives 0.
C4_ProcurementTotal ==
    procResult # <<>> =>
        LET actual == procInput.ordered + procInput.delivered
        IN /\ actual > 0 => procResult[2] = actual
           /\ actual <= 0 => procResult[2] = procInput.forecast
           /\ (procInput.ordered = 5 /\ procInput.delivered = 3 /\ procInput.forecast = 100)
                => procResult[2] = 8
           /\ (procInput.ordered = 0 /\ procInput.delivered = 0 /\ procInput.forecast = 50)
                => procResult[2] = 50
           /\ (procInput.ordered = 0 /\ procInput.delivered = 0 /\ procInput.forecast = 0)
                => procResult[2] = 0

\* the total of 5 ordered, 3 delivered under a forecast of 100 was computed from
\* the lists of POs
C4_Witness ==
    /\ procResult = <<"lists", 8>>
    /\ procInput.forecast = 100
    /\ procInput.ordered = 5
    /\ procInput.delivered = 3

\* C10: getWeekTemporalState compares the year first and the week number only
\* within the same year: past when the year is earlier, or the same with an
\* earlier week; future when the year is later, or the same with a later week;
\* current exactly when both are equal; every input gets exactly one of the
\* three states.
C10_TemporalState ==
    temporalResult # "none" =>
        LET in == temporalInput
        IN /\ temporalResult \in {"past", "current", "future"}
           /\ in.ordinal \in WeekNums =>
                /\ temporalResult = "past"
                    <=> (\/ in.weekYear < in.currentYear
                         \/ (in.weekYear = in.currentYear /\ in.ordinal < in.currentWeek))
                /\ temporalResult = "future"
                    <=> (\/ in.weekYear > in.currentYear
                         \/ (in.weekYear = in.currentYear /\ in.ordinal > in.currentWeek))
                /\ temporalResult = "current"
                    <=> (in.weekYear = in.currentYear /\ in.ordinal = in.currentWeek)

\* a week of an earlier year with a later week number was classified as past
C10_Witness ==
    /\ temporalResult = "past"
    /\ temporalInput.weekYear < temporalInput.currentYear
    /\ temporalInput.ordinal > temporalInput.currentWeek
    /\ temporalInput.ordinal = 53

\* C11: isEditable is false for every row in a past week; for a row editable in
\* future weeks only it is true exactly in a future week; for a row marked
\* unconditionally editable it is true in current and future weeks; for a row
\* with neither flag it is false in every state.
C11_IsEditable ==
    (editableResult # <<>> /\ editableResult[1] = "isEditable") =>
        LET r == rowInput
            st == temporalResult
            v == editableResult[2]
        IN /\ st = "past" => v = FALSE
           /\ (r.editableInFuture /\ ~r.editable) => (v <=> st = "future")
           /\ (r.editable /\ st \in {"current", "future"}) => v = TRUE
           /\ (~r.editable /\ ~r.editableInFuture) => v = FALSE

\* isEditable refused a row editable in future weeks only in the current week
C11_Witness ==
    /\ editableResult = <<"isEditable", FALSE>>
    /\ rowInput = RowDefinition("salesForecast_baseline", FALSE, TRUE)
    /\ temporalResult = "current"

\* C12: the forecast table's isCellEditable gives, for every row definition and
\* temporal state, the answer of the core isEditable rule; a row editable in
\* future weeks only is not editable in the current week.
C12_TableMatchesCore ==
    (editableResult # <<>> /\ editableResult[1] = "isCellEditable") =>
        /\ editableResult[2] = isEditable(rowInput, temporalResult)
        /\ (rowInput.editableInFuture /\ ~rowInput.editable /\ temporalResult = "current")
            => editableResult[2] = FALSE

\* the link state after call n of the history
After(n) == IF n = Len(linkTrace) THEN LinkSnapshot ELSE linkTrace[n + 1].pre

\* the unlinked POs of an article in a link state, as the mounted provider
\* reports them
UnlinkedOf(s, a) ==
    IF provider = "linkStates" THEN getUnlinkedPOs(s.linkStates, a)
    ELSE unlinkedPOsForCurrentArticle(s.allPOs, a)

UnlinkedNumbers(s, a) == {e.poNummer : e \in SeqToSet(UnlinkedOf(s, a))}

UnlinkedPairs(s, a) == {<<e.poNummer, e.menge>> : e \in SeqToSet(UnlinkedOf(s, a))}

\* how often a PO number occurs among the unlinked POs of an article
UnlinkedCount(s, a, p) ==
    Cardinality({i \in 1..Len(UnlinkedOf(s, a)) : UnlinkedOf(s, a)[i].poNummer = p})

\* the linked PO of a week as reported for an article (undefined: not linked)
LinkedPOIn(s, a, w) ==
    IF provider = "linkStates" THEN getLinkedPONummer(s.linkStates, a, w)
    ELSE getLinkedPO(s.linkedWeeks, w)

\* the PO numbers known for an article in a link state
KnownPOs(s, a) ==
    IF provider = "linkStates"
    THEN IF s.linkStates[a].present
         THEN ({e.poNummer : e \in SeqToSet(ArticleData(a).unlinkedPOs)}
               \cup {initialLinkedWeeks(ArticleData(a))[w] : w \in LinkWeeks}) \ {undefined}
         ELSE {}
    ELSE {s.allPOs[i].poNummer : i \in {j \in 1..Len(s.allPOs) : s.allPOs[j].artikelId = a}}

\* C13: link exclusivity. For two distinct unlinked POs A and B of an article,
\* after link(week, A) followed by link(week, B) the linked PO of the week is B
\* and A is again among the article's unlinked POs.
C13_LinkExclusivity ==
    \A n \in 2..Len(linkTrace), a \in Articles :
        LET c1 == linkTrace[n - 1]
            c2 == linkTrace[n]
        IN (/\ c1.op = "linkPO" /\ c2.op = "linkPO"
            /\ c1.week = c2.week
            /\ c1.articleId = c2.articleId
            /\ provider = "linkStates" => c1.articleId = a
            /\ c1.poNummer # c2.poNummer
            /\ c1.poNummer \in UnlinkedNumbers(c1.pre, a)
            /\ c2.poNummer \in UnlinkedNumbers(c1.pre, a))
           => /\ LinkedPOIn(After(n), a, c2.week) = c2.poNummer
              /\ c1.poNummer \in UnlinkedNumbers(After(n), a)

\* C14: one-to-one linking. In every state reachable by link and unlink calls
\* from an initial state with distinct PO numbers, no PO number is the linked PO
\* of two weeks (and a week has one linked PO at most).
C14_OneToOne ==
    \A a \in Articles, w1 \in LinkWeeks, w2 \in LinkWeeks :
        (w1 # w2 /\ LinkedPOIn(LinkSnapshot, a, w1) # undefined)
        => LinkedPOIn(LinkSnapshot, a, w1) # LinkedPOIn(LinkSnapshot, a, w2)

\* C15: link-state consistency. For each article no PO number is at once among
\* the unlinked POs and the linked PO of a week, and every PO of the article
\* that is not unlinked is the linked PO of some week.
C15_LinkStateConsistent ==
    \A a \in Articles :
        /\ \A p \in UnlinkedNumbers(LinkSnapshot, a), w \in LinkWeeks :
                LinkedPOIn(LinkSnapshot, a, w) # p
        /\ \A p \in KnownPOs(LinkSnapshot, a) \ UnlinkedNumbers(LinkSnapshot, a) :
                \E w \in LinkWeeks : LinkedPOIn(LinkSnapshot, a, w) = p

\* whether a link call finds its PO existing and unlinked
LinkApplies(c) ==
    IF provider = "linkStates"
    THEN c.poNummer \in UnlinkedNumbers(c.pre, c.articleId)
    ELSE \E a \in Articles : c.poNummer \in UnlinkedNumbers(c.pre, a)

\* C16: link precondition. link(week, poNummer) takes effect only when the PO
\* exists and is unlinked: it then leaves the unlinked set and the week is
\* linked to it; for an unknown or already linked PO, or an article without
\* link state, the unlinked set and the linked map stay as they were.
C16_LinkPrecondition ==
    \A n \in 1..Len(linkTrace) :
        LET c == linkTrace[n]
        IN c.op = "linkPO" =>
            IF LinkApplies(c)
            THEN \A a \in Articles :
                    /\ c.poNummer \notin UnlinkedNumbers(After(n), a)
                    /\ (provider = "linkStates" => a = c.articleId)
                        => LinkedPOIn(After(n), a, c.week) = c.poNummer
            ELSE \A a \in Articles :
                    /\ UnlinkedOf(After(n), a) = UnlinkedOf(c.pre, a)
                    /\ \A w \in LinkWeeks : LinkedPOIn(After(n), a, w) = LinkedPOIn(c.pre, a, w)

\* whether an unlink call finds nothing to unlink: the week has no linked PO,
\* or, in the three-argument form, its linked PO is not the given one
UnlinkIsNoop(c) ==
    IF provider = "linkStates"
    THEN getLinkedPONummer(c.pre.linkStates, c.articleId, c.week) # c.poNummer
    ELSE getLinkedPO(c.pre.linkedWeeks, c.week) = undefined

UnlinkedCountAnywhere(s, p) ==
    IF provider = "linkStates" THEN 0
    ELSE Cardinality({i \in 1..Len(s.allPOs) :
                        s.allPOs[i].poNummer = p /\ s.allPOs[i].status = "unlinked"})

\* C18: unlink effect. When the week has linked PO P, unlink removes the week's
\* mapping (the week is then reported not linked) and P is again among the
\* unlinked POs of its article, exactly once.
C18_UnlinkEffect ==
    \A n \in 1..Len(linkTrace) :
        LET c == linkTrace[n]
            P == IF provider = "linkStates" THEN c.poNummer
                 ELSE getLinkedPO(c.pre.linkedWeeks, c.week)
        IN (c.op = "unlinkPO" /\ ~UnlinkIsNoop(c)) =>
            IF provider = "linkStates"
            THEN /\ getLinkedPONummer(After(n).linkStates, c.articleId, c.week) = undefined
                 /\ ~isForecastLinked(After(n).linkStates, c.articleId, c.week)
                 /\ UnlinkedCount(After(n), c.articleId, P) = 1
            ELSE /\ getLinkedPO(After(n).linkedWeeks, c.week) = undefined
                 /\ UnlinkedCountAnywhere(After(n), P) = 1

\* C19: link/unlink round trip. For an unlinked PO P with quantity q,
\* link(week, P) followed by unlink of that week leaves the (poNummer, menge)
\* pairs of the unlinked POs as they were before the link.
C19_RoundTripKeepsMenge ==
    \A n \in 2..Len(linkTrace) :
        LET c1 == linkTrace[n - 1]
            c2 == linkTrace[n]
        IN (/\ c1.op = "linkPO" /\ c2.op = "unlinkPO"
            /\ c1.week = c2.week
            /\ c1.articleId = c2.articleId
            /\ provider = "linkStates" => c1.poNummer = c2.poNummer
            /\ LinkApplies(c1))
           => \A a \in Articles : UnlinkedPairs(After(n), a) = UnlinkedPairs(c1.pre, a)

\* C20: link state is scoped per article. A link or unlink call for article a
\* changes, for no other article b and no week, whether the week is reported
\* linked or which PO is reported, and leaves b's unlinked POs as they were.
C20_ScopedPerArticle ==
    \A n \in 1..Len(linkTrace) :
        LET c == linkTrace[n]
        IN (c.op \in {"linkPO", "unlinkPO"} /\ Truthy(c.articleId)) =>
            \A b \in Articles \ {c.articleId} :
                /\ \A w \in LinkWeeks : LinkedPOIn(After(n), b, w) = LinkedPOIn(c.pre, b, w)
                /\ UnlinkedOf(After(n), b) = UnlinkedOf(c.pre, b)

WindowOf(in) ==
    {i \in 1..Len(in.weeklyData) :
        i <= in.currentWeekIndex /\ i > in.currentWeekIndex - HIST_WEEKS}

RECURSIVE SumOver(_, _, _)
\* the sum of f[i] over the positions i of a set
SumOver(f, S, zero) ==
    IF S = {} THEN zero
    ELSE LET i == CHOOSE x \in S : TRUE IN f[i] + SumOver(f, S \ {i}, zero)

ActualSumOf(in) ==
    SumOver([i \in 1..Len(in.weeklyData) |-> OrZero(in.weeklyData[i].salesActuals)],
            WindowOf(in), 0)

BudgetSumOf(in) ==
    SumOver([i \in 1..Len(in.weeklyData) |-> in.weeklyData[i].salesBudget], WindowOf(in), 0)

\* C22: a manual override wins outright. Whenever an override is given, 0
\* included, calculateAdaptiveForecast and getEffectiveBaseline return exactly
\* the override, whatever the budget, orders, actuals, week number and history.
C22_OverrideWins ==
    (/\ fcResult # <<>>
     /\ fcResult[1] \in {"calculateAdaptiveForecast", "getEffectiveBaseline"}
     /\ fcInput.manualOverride # NoNumber)
    => fcResult[2] = fcInput.manualOverride[1]

\* getEffectiveBaseline returned an override of 0 for a week with budget 120
\* whose history runs at three times the budget
C22_Witness ==
    /\ fcResult = <<"getEffectiveBaseline", 0>>
    /\ fcInput.manualOverride = Some(0)
    /\ fcInput.budget = 120
    /\ Len(fcInput.weeklyData) = 2

\* C23: the run-rate factor is 1 when the budget sum over the history window
\* is zero, otherwise the actual/budget ratio clamped into [0.5, 1.5]; it lies
\* within [0.5, 1.5] for every history.
C23_RunRateFactor ==
    (fcResult # <<>> /\ fcResult[1] = "calculateRunRateFactor") =>
        LET f == fcResult[2]
            a == ActualSumOf(fcInput)
            b == BudgetSumOf(fcInput)
        IN /\ f.den > 0
           /\ 2 * f.num >= f.den
           /\ 2 * f.num <= 3 * f.den
           /\ b = 0 => f.num = f.den
           /\ (b > 0 /\ 2 * a < b) => 2 * f.num = f.den
           /\ (b > 0 /\ 2 * a > 3 * b) => 2 * f.num = 3 * f.den
           /\ (b > 0 /\ 2 * a >= b /\ 2 * a <= 3 * b) => f.num * b = a * f.den

\* the factor of a nine-week history whose last eight weeks sold three times
\* the budget is 1.5
C23_Witness ==
    /\ fcResult # <<>>
    /\ fcResult[1] = "calculateRunRateFactor"
    /\ Len(fcInput.weeklyData) = 9
    /\ fcInput.currentWeekIndex = 9
    /\ ActualSumOf(fcInput) = 2400
    /\ BudgetSumOf(fcInput) = 800
    /\ fcResult[2] = Rat(3, 2)

\* C24: without a manual override the system-suggested forecast is
\* round(budget * runRateFactor), runRateFactor being the clamped ratio of
\* actuals to budget, and this is what calculateAdaptiveForecast returns when
\* its override argument is absent.
C24_SystemBaseline ==
    (/\ fcResult # <<>>
     /\ fcResult[1] \in {"calculateAdaptiveForecast", "getEffectiveBaseline"}
     /\ fcInput.manualOverride = NoNumber)
    => fcResult[2] = SystemBaselineOf(fcInput)

C26_RecalculationIdempotent ==
    /\ (calcCall.fn = "recalculateWeeklyDataArray" /\ calcCall.startIndex = 0)
        => recalculateWeeklyDataArray(calcResult, 0) = calcResult
    /\ (calcCall.fn = "recalculateInventoryChain" /\ calcCall.startIndex = 0)
        => recalculateInventoryChain(calcResult, 0, calcCall.changeMap) = calcResult

\* a three-week dataset was recomputed from its first week and changed by it
C26_Witness ==
    /\ calcCall.fn = "recalculateWeeklyDataArray"
    /\ calcCall.startIndex = 0
    /\ Len(weeklyData) = 3
    /\ calcResult # weeklyData

\* the full recomputation the call of the state is a part of
FullOfCall ==
    IF calcCall.fn = "recalculateWeeklyDataArray" THEN recalculateWeeklyDataArray(weeklyData, 0)
    ELSE recalculateInventoryChain(weeklyData, 0, calcCall.changeMap)

\* C27: partial recomputation from week i recomputes weeks i..N in ascending
\* order, each from the recomputed end of its predecessor, leaves weeks 0..i-1
\* as they are, and equals the full recomputation when weeks 0..i-1 are
\* already consistent.
C27_PartialRecalculation ==
    (calcCall.fn \in {"recalculateWeeklyDataArray", "recalculateInventoryChain"}) =>
        LET s == calcCall.startIndex
        IN /\ Len(calcResult) = Len(weeklyData)
           /\ SubSeq(calcResult, 1, s) = SubSeq(weeklyData, 1, s)
           /\ \A j \in (s + 1)..Len(calcResult) :
                j > 1 => calcResult[j].lagerbestandAnfang = calcResult[j - 1].lagerbestandEnde
           /\ SubSeq(FullOfCall, 1, s) = SubSeq(weeklyData, 1, s) => calcResult = FullOfCall

\* a dataset whose first two weeks are consistent was recomputed from its third
\* week, which changed
C27_Witness ==
    /\ calcCall.fn = "recalculateWeeklyDataArray"
    /\ calcCall.startIndex = 2
    /\ SubSeq(FullOfCall, 1, 2) = SubSeq(weeklyData, 1, 2)
    /\ weeklyData[2].lagerbestandAnfang = weeklyData[1].lagerbestandEnde
    /\ calcResult # weeklyData

\* a week with getEffectiveValue substituted for its editable forecast and
\* procurement fields
SubstitutedWeek(store, articleId, d) ==
    [d EXCEPT
        !.salesForecastBreakdown.baseline =
            getEffectiveValue(store, articleId, "forecastBaseline", @, d.week, undefined),
        !.salesForecastBreakdown.promo.kartonware =
            getEffectiveValue(store, articleId, "forecastPromoKarton", @, d.week, undefined),
        !.salesForecastBreakdown.promo.displays =
            getEffectiveValue(store, articleId, "forecastPromoDisplays", @, d.week, undefined),
        !.procurementBreakdown.forecast =
            getEffectiveValue(store, articleId, "procurementForecast", @, d.week, undefined)]

\* the engine's result for the article: the whole sequence recomputed from its
\* first week over the substituted fields
EngineResult(store, articleId, data) ==
    recalculateWeeklyDataArray(
        [i \in 1..Len(data) |-> SubstitutedWeek(store, articleId, data[i])], 0)

\* C28: the overlay-adjusted inventory shown equals the engine's result.
\* Whenever the article has a Change, the inventory-end series of the displayed
\* weeks is the series of those weeks in the whole sequence recomputed from its
\* first week over the effective values, also when the displayed window starts
\* after the week that was changed.
C28_DisplayedEqualsEngine ==
    (calcCall.fn = "LagerbestandProjection" /\ hasChanges(calcCall.store, calcCall.articleId))
    => LET engine == EngineResult(calcCall.store, calcCall.articleId, weeklyData)
       IN calcResult =
            [i \in 1..Len(calcResult) |-> engine[calcCall.startIndex + i].lagerbestandEnde]

\* the records of the sequence whose effective values differ from their own
AlteredRecords(store, articleId, data) ==
    {i \in 1..Len(data) : SubstitutedWeek(store, articleId, data[i]) # data[i]}

\* the records of the sequence reported linked
LinkedRecords(states, articleId, data) ==
    {i \in 1..Len(data) : isForecastLinked(states, articleId, data[i].week)}

\* the weeks of the article's link state that have a linked PO
LinkedWeeksOf(states, articleId) ==
    {w \in LinkWeeks : getLinkedPONummer(states, articleId, w) # undefined}

\* C29: a Change or a PO link recorded for one week of an article affects one
\* weekly record of the article's multi-year sequence: no more records have an
\* altered effective value than there are Changes, no more records are reported
\* linked than weeks were linked, so the record with the same week label in
\* another year keeps its value and linked state.
C29_OneRecordPerChange ==
    /\ Cardinality(AlteredRecords(changes, "a1", weeklyData)) <= Len(changes)
    /\ Cardinality(LinkedRecords(linkStates, "a1", weeklyData))
        <= Cardinality(LinkedWeeksOf(linkStates, "a1"))

\* whether a PO number is that of a PO with status unlinked in a link state
IsUnlinkedPO(s, p) ==
    \E i \in 1..Len(s.allPOs) : s.allPOs[i].poNummer = p /\ s.allPOs[i].status = "unlinked"

\* every link call of the history found its PO unlinked and its week free
LinkCallsInOrder ==
    \A n \in 1..Len(linkTrace) :
        linkTrace[n].op = "linkPO" =>
            /\ IsUnlinkedPO(linkTrace[n].pre, linkTrace[n].poNummer)
            /\ getLinkedPO(linkTrace[n].pre.linkedWeeks, linkTrace[n].week) = undefined

\* C30: every mutation takes full effect before the next call. An unlinkPO(week)
\* issued directly after linkPO(week, P), no render in between, removes the
\* week's mapping and returns P to status unlinked; a query issued directly
\* after a mutation observes the mutated state; and no interleaving of link,
\* unlink and query calls leaves P marked linked while no week maps to it.
C30_MutationsTakeEffect ==
    LinkCallsInOrder =>
        /\ \A n \in 2..Len(linkTrace) :
              (/\ linkTrace[n - 1].op = "linkPO"
               /\ linkTrace[n].op = "unlinkPO"
               /\ linkTrace[n].week = linkTrace[n - 1].week)
              => /\ getLinkedPO(After(n).linkedWeeks, linkTrace[n].week) = undefined
                 /\ IsUnlinkedPO(After(n), linkTrace[n - 1].poNummer)
        /\ \A n \in 1..Len(linkTrace) :
              linkTrace[n].op = "getLinkedPO"
              => linkTrace[n].poNummer = getLinkedPO(linkTrace[n].pre.linkedWeeks, linkTrace[n].week)
        /\ \A i \in 1..Len(allPOs) :
              allPOs[i].status = "linked"
              => \E w \in LinkWeeks : getLinkedPO(linkedWeeks, w) = allPOs[i].poNummer

====
